---- MODULE Spec2Model ----
(***************************************************************************)
(* A model of the hybrid retrieval pipeline of automotive-gpt:             *)
(*   src/src/retrieval/hybrid_retriever.py  (orchestrator, rank fusion)    *)
(*   src/src/retrieval/reranker.py          (cross-encoder reranker)       *)
(*   src/src/retrieval/sparse_retriever.py  (BM25 retriever, lexical index)*)
(*   src/src/retrieval/dense_retriever.py   (filter builder)               *)
(* and of the application around it:                                       *)
(*   src/src/ingestion/embedder.py          (embedding calls with retries) *)
(*   src/src/api/main.py                    (chat endpoint, response cache)*)
(*   src/src/memory/conversation_store.py   (conversation persistence)     *)
(*   src/src/ingestion/indexer.py           (vector index writes)          *)
(*   src/scripts/ingest.py                  (ingestion script)             *)
(*                                                                         *)
(* Strings are sequences of word tokens; a substring test of the code is a *)
(* token-membership test here.  Scores are exact rationals with the common *)
(* denominator ScoreDen, held as their integer numerators.                 *)
(***************************************************************************)
EXTENDS Integers, Sequences, FiniteSets, TLC

VARIABLES
    \* ---- HybridRetriever (one retriever object, one caller) ----
    top_k,          \* self.top_k
    rerank_n,       \* self.rerank_n (= self.reranker.top_n)
    pc,             \* position of the current retrieve() call
    query,          \* retrieve(): query argument
    filters,        \* retrieve(): filters argument
    path,           \* "normal" | "comparison" once the call has branched
    vehicles,       \* retrieve(): vehicles
    vi,             \* retrieve(): position of the `for vehicle in vehicles` loop
    topic,          \* retrieve(): topic
    single_query,   \* _retrieve_single(): query argument
    single_top_k,   \* _retrieve_single(): top_k argument (0: None)
    dense_results,  \* _retrieve_single(): dense_results
    sparse_results, \* _retrieve_single(): sparse_results
    merged,         \* _retrieve_single(): merged
    reranked,       \* _retrieve_single(): reranked (its return value)
    all_results,    \* retrieve(): all_results
    origin,         \* history: for each element of all_results, the vehicle it was retrieved for
    result,         \* what retrieve() returned to its caller
    exc,            \* the exception that left retrieve(), if any
    calls,          \* history: the stage calls of the current retrieve(), in order
    rrf_args,       \* history: the argument tuple of this _retrieve_single's fusion call
    rerank_args,    \* history: <<query, candidates>> of this _retrieve_single's rerank call
    \* ---- _reciprocal_rank_fusion as a pure function ----
    result_lists,   \* *result_lists
    fused,          \* the returned list
    fstate,         \* "ready" | "done"
    \* ---- the metadata filters as pure functions ----
    fmeta,          \* _matches_filter(): metadata
    ffilters,       \* _matches_filter(), _build_filter(): filters
    matches,        \* what _matches_filter returned
    mstate,         \* "ready" | "done"
    pinecone_filter,\* what _build_filter returned
    bstate,         \* "ready" | "done"
    \* ---- SparseRetriever (one retriever object, its callers, the vector store) ----
    s_top_k,        \* self.top_k
    store,          \* the chunks held by the vector store, in listing order
    bm25,           \* self._bm25: whether it is set, and the tokenised documents it ranks
    corpus,         \* self._corpus
    ncalls,         \* history: retrieve() calls started
    fetches,        \* history: corpus fetches issued
    builds,         \* history: BM25 structures built (tokenisations of a corpus)
    built_from,     \* history: the corpus the latest build had fetched
    spc,            \* per caller: position in retrieve() / _ensure_index_loaded()
    squery,         \* per caller: retrieve(): query
    sfilters,       \* per caller: retrieve(): filters
    local_corpus,   \* per caller: _ensure_index_loaded(): corpus
    scores,         \* per caller: retrieve(): scores
    sresult,        \* per caller: what retrieve() returned
    sexc,           \* per caller: the exception that left retrieve(), if any
    \* ---- Reranker (one rerank() call and the rerank service) ----
    rr_top_n,       \* self.top_n
    rr_query,       \* rerank(): query
    rr_candidates,  \* rerank(): candidates
    service_calls,  \* history: the requests the rerank service received
    rr_response,    \* response.results
    rr_out,         \* what rerank() returned
    rr_exc,         \* the exception that left rerank(), if any
    rstate,         \* "ready" | "done" | "raised"
    \* ---- Embedder._call_api (one call and the embeddings API) ----
    e_pc,           \* "ready" | "calling" | "returned" | "raised"
    e_texts,        \* _call_api(): texts
    attempt,        \* _call_api(): attempt
    api_calls,      \* history: the outcome of each embeddings.create call, in order
    slept,          \* history: the delays slept, in order
    e_out,          \* what _call_api returned
    e_exc,          \* the exception that left _call_api, if any
    \* ---- the chat endpoint (one request at a time), its store and its cache ----
    conversations,  \* the conversations table: id -> [filters, messages]
    cache,          \* the Redis response cache: key -> response data
    nreq,           \* history: chat requests started
    c_pc,           \* position of the current chat() call
    c_request,      \* chat(): request
    c_conv_id,      \* chat(): conv_id
    c_history,      \* chat(): history
    c_cache_key,    \* chat(): cache_key
    c_cached_result,\* chat(): cached_result
    c_chunks,       \* chat(): chunks
    c_result,       \* chat(): result (of the generator)
    c_response,     \* what chat() returned
    c_exc,          \* the exception that left chat(), if any
    c_calls,        \* history: the collaborator calls of the current request, in order
    store_before,   \* history: the conversations table when the request arrived
    cache_before,   \* history: the cache when the request arrived
    \* ---- ConversationStore.append_message (one conversation row, concurrent callers) ----
    am_stored,      \* the committed messages column of the row
    am_pc,          \* per caller: position in append_message
    am_content,     \* per caller: append_message(): content
    am_messages,    \* per caller: append_message(): messages
    am_returned,    \* history, per caller: the contents whose append returned, in call order
    \* ---- ingestion (API endpoint or script) and the vector index ----
    ix_vectors,     \* the vectors held by the index
    ix_mode,        \* "api" (main.ingest) | "script" (scripts/ingest.py main)
    ix_files,       \* files
    ix_pos,         \* position of the `for file_path in files` loop
    ix_pc,          \* step of the current file
    ix_nchunks,     \* len(chunks) of the current file
    ix_upserted,    \* upsert(): total
    total_vectors,  \* total_vectors
    ix_failed,      \* history: the files whose ingestion raised
    ix_start        \* history: the vectors held when the run started

hybridVars == <<top_k, rerank_n, pc, query, filters, path, vehicles, vi, topic,
                single_query, single_top_k, dense_results, sparse_results, merged,
                reranked, all_results, origin, result, exc, calls, rrf_args,
                rerank_args>>
fusionVars == <<result_lists, fused, fstate>>
filterVars == <<fmeta, ffilters, matches, mstate, pinecone_filter, bstate>>
sparseShared == <<s_top_k, store, bm25, corpus, ncalls, fetches, builds, built_from>>
sparseLocals == <<spc, squery, sfilters, local_corpus, scores, sresult, sexc>>
sparseVars == <<sparseShared, sparseLocals>>
rerankVars == <<rr_top_n, rr_query, rr_candidates, service_calls, rr_response, rr_out,
                rr_exc, rstate>>
embedVars == <<e_pc, e_texts, attempt, api_calls, slept, e_out, e_exc>>

\* the retrieval pipeline, and the application around it
retrievalVars == <<hybridVars, fusionVars, filterVars, sparseVars, rerankVars>>
chatShared == <<conversations, cache, nreq>>
chatLocals == <<c_pc, c_request, c_conv_id, c_history, c_cache_key, c_cached_result, c_chunks,
                c_result, c_response, c_exc, c_calls, store_before, cache_before>>
chatVars == <<chatShared, chatLocals>>
appendVars == <<am_stored, am_pc, am_content, am_messages, am_returned>>
ingestVars == <<ix_vectors, ix_mode, ix_files, ix_pos, ix_pc, ix_nchunks, ix_upserted,
                total_vectors, ix_failed, ix_start>>
appVars == <<embedVars, chatVars, appendVars, ingestVars>>
vars == <<retrievalVars, appVars>>

\* everything but the orchestrator's variables
notHybrid == <<fusionVars, filterVars, sparseVars, rerankVars, appVars>>

\* everything but the fusion merger's variables
notFusion == <<hybridVars, filterVars, sparseVars, rerankVars, appVars>>

\* everything but the filter functions' variables
notFilter == <<hybridVars, fusionVars, sparseVars, rerankVars, appVars>>

\* everything but the sparse retriever's variables
notSparse == <<hybridVars, fusionVars, filterVars, rerankVars, appVars>>

\* everything but the reranker's variables
notRerank == <<hybridVars, fusionVars, filterVars, sparseVars, appVars>>

\* everything but the embedder's variables
notEmbed == <<retrievalVars, chatVars, appendVars, ingestVars>>

\* everything but the chat endpoint's variables
notChat == <<retrievalVars, embedVars, appendVars, ingestVars>>

\* everything but the variables of the concurrent appends
notAppend == <<retrievalVars, embedVars, chatVars, ingestVars>>

\* everything but the ingestion's variables
notIngest == <<retrievalVars, embedVars, chatVars, appendVars>>

----------------------------------------------------------------------------
\* Bounds of the model

\* largest configured top_k
MaxTopK == 4
\* largest configured rerank_n
MaxRerankN == 5
\* longest query, in tokens
MaxQueryLen == 4
\* most input lists handed to the fusion merger
MaxLists == 2
\* longest input list handed to the fusion merger
MaxLen == 2
\* most retrieve() calls made on the sparse retriever
MaxCalls == 3
\* most candidates handed to the reranker
MaxCandidates == 3
\* chat requests served in one run
MaxRequests == 2
\* append_message calls of each concurrent caller
MaxAppends == 2

----------------------------------------------------------------------------
\* Generic helpers

None == "None"

Min(a, b) == IF a < b THEN a ELSE b

Max(a, b) == IF a > b THEN a ELSE b

Range(s) == {s[i] : i \in DOMAIN s}

\* s[:n]
Take(s, n) == SubSeq(s, 1, Min(n, Len(s)))

RECURSIVE Gcd(_, _)
Gcd(a, b) == IF b = 0 THEN a ELSE Gcd(b, a % b)

RECURSIVE SumOver(_, _)
\* sum of f[x] over the finite set S
SumOver(S, f) ==
    IF S = {} THEN 0
    ELSE LET x == CHOOSE y \in S : TRUE IN f[x] + SumOver(S \ {x}, f)

----------------------------------------------------------------------------
\* RetrievedChunk and the fusion merger (hybrid_retriever.py)

\* RetrievedChunk(text, score, metadata)
RetrievedChunk(text, score, metadata) ==
    [text |-> text, score |-> score, metadata |-> metadata]

\* dict.get(key): None when the key is absent
MetaGet(metadata, key) == IF key \in DOMAIN metadata THEN metadata[key] ELSE None

\* Python truthiness of a metadata value (None and "" are falsy)
Truthy(v) == v \notin {None, ""}

\* str(hash(text)): a function of the text alone
StrHash(text) ==
    CASE text = "T" -> "h_T"
      [] text = "A" -> "h_A"
      [] text = "A2" -> "h_A2"
      [] text = "B" -> "h_B"
      [] OTHER -> "h_other"

\* key = chunk.metadata.get("chunk_id") or str(hash(chunk.text))
ChunkKey(chunk) ==
    LET id == MetaGet(chunk.metadata, "chunk_id")
    IN IF Truthy(id) THEN id ELSE StrHash(chunk.text)

\* _RRF_K
RRF_K == 60

\* the largest rank any modelled list reaches
MaxRank == Max(MaxLen, MaxTopK)

RECURSIVE LcmUpTo(_)
\* least common multiple of RRF_K + 1 .. RRF_K + n
LcmUpTo(n) ==
    IF n = 0 THEN 1
    ELSE LET l == LcmUpTo(n - 1) IN (l \div Gcd(l, RRF_K + n)) * (RRF_K + n)

\* the common denominator of all scores: 1.0 is ScoreDen
ScoreDen == LcmUpTo(MaxRank)

RankStartZero == 1 - 1

\* enumerate(ranked_list, start=1): the first rank
RankStart == 1

RrfTermUnshifted(rank) == ScoreDen \div rank

\* 1.0 / (_RRF_K + rank)
RrfTerm(rank) == ScoreDen \div (RRF_K + rank)

RECURSIVE Visits(_)
\* the (rank, chunk) pairs the two nested loops visit, in order
Visits(lists) ==
    IF lists = <<>> THEN <<>>
    ELSE [r \in 1..Len(Head(lists)) |->
             [rank |-> r - 1 + RankStart, chunk |-> Head(lists)[r]]]
         \o Visits(Tail(lists))

ChunkMapPutLast(chunk_map, key, chunk) ==
    IF key \in DOMAIN chunk_map
    THEN [chunk_map EXCEPT ![key] = chunk]
    ELSE chunk_map @@ (key :> chunk)

\* if key not in chunk_map: chunk_map[key] = chunk
ChunkMapPut(chunk_map, key, chunk) ==
    IF key \in DOMAIN chunk_map THEN chunk_map ELSE chunk_map @@ (key :> chunk)

ScoresAddOverwrite(st, key, term) ==
    IF key \in DOMAIN st.rrf_scores
    THEN [st EXCEPT !.rrf_scores[key] = term]
    ELSE [st EXCEPT !.rrf_scores = @ @@ (key :> term), !.keys = Append(@, key)]

\* rrf_scores[key] += term   (a defaultdict(float); keys holds its insertion order)
ScoresAdd(st, key, term) ==
    IF key \in DOMAIN st.rrf_scores
    THEN [st EXCEPT !.rrf_scores[key] = @ + term]
    ELSE [st EXCEPT !.rrf_scores = @ @@ (key :> term), !.keys = Append(@, key)]

\* one round of the inner loop
RrfStep(st, v) ==
    LET key == ChunkKey(v.chunk)
        st1 == ScoresAdd(st, key, RrfTerm(v.rank))
    IN [st1 EXCEPT !.chunk_map = ChunkMapPut(@, key, v.chunk)]

RECURSIVE RrfLoop(_, _)
RrfLoop(st, visits) ==
    IF visits = <<>> THEN st ELSE RrfLoop(RrfStep(st, Head(visits)), Tail(visits))

\* the empty dictionaries
EmptyMap == [k \in {} |-> 0]

RrfAccumulate(lists) ==
    RrfLoop([keys |-> <<>>, rrf_scores |-> EmptyMap, chunk_map |-> EmptyMap],
            Visits(lists))

RECURSIVE InsertDesc(_, _, _)
\* insert k behind every element whose score is >= its own (a stable sort)
InsertDesc(sorted, k, score) ==
    IF sorted = <<>> THEN <<k>>
    ELSE IF score[Head(sorted)] >= score[k]
         THEN <<Head(sorted)>> \o InsertDesc(Tail(sorted), k, score)
         ELSE <<k>> \o sorted

RECURSIVE SortDesc(_, _, _)
SortDesc(done, keys, score) ==
    IF keys = <<>> THEN done
    ELSE SortDesc(InsertDesc(done, Head(keys), score), Tail(keys), score)

SortedKeysInsertionOrder(keys, score) == keys

\* sorted(rrf_scores, key=lambda k: rrf_scores[k], reverse=True)
SortedKeys(keys, score) == SortDesc(<<>>, keys, score)

\* HybridRetriever._reciprocal_rank_fusion(*result_lists)
ReciprocalRankFusion(lists) ==
    LET st == RrfAccumulate(lists)
        sorted_keys == SortedKeys(st.keys, st.rrf_scores)
    IN [i \in 1..Len(sorted_keys) |->
           RetrievedChunk(st.chunk_map[sorted_keys[i]].text,
                          st.rrf_scores[sorted_keys[i]],
                          st.chunk_map[sorted_keys[i]].metadata)]

----------------------------------------------------------------------------
\* Inputs of the fusion merger

\* two instances of key "a" that differ in text, score and metadata, one chunk
\* of key "b", and one chunk without chunk_id (keyed by its content hash)
FusionChunks ==
    { RetrievedChunk("A", 90, [chunk_id |-> "a", source_file |-> "x.pdf"]),
      RetrievedChunk("A2", 80, [chunk_id |-> "a", source_file |-> "y.pdf"]),
      RetrievedChunk("B", 70, [chunk_id |-> "b", source_file |-> "x.pdf"]),
      RetrievedChunk("T", 50, [source_file |-> "x.pdf"]) }

\* the sequences over S of length <= n that repeat no element
InjSeqs(S, n) ==
    UNION { {s \in [1..k -> S] : \A i, j \in 1..k : i # j => s[i] # s[j]}
            : k \in 0..n }

RankedLists == InjSeqs(FusionChunks, MaxLen)

FusionInputs == UNION { [1..k -> RankedLists] : k \in 0..MaxLists }

----------------------------------------------------------------------------
\* Metadata filters (sparse_retriever.py, dense_retriever.py)

\* for key in ("make", "model", "year", "subsystem")   (SparseRetriever)
sparse_filter_keys == <<"make", "model", "year", "subsystem">>

\* for key in ("make", "model", "year", "subsystem")   (DenseRetriever)
dense_filter_keys == <<"make", "model", "year", "subsystem">>

MatchKeyActiveWithNone(flt, key) == key \in DOMAIN flt

\* key in filters and filters[key] is not None   (SparseRetriever)
MatchKeyActive(flt, key) == key \in DOMAIN flt /\ flt[key] # None

RECURSIVE MatchesFrom(_, _, _)
\* the loop of _matches_filter from the i-th key on
MatchesFrom(metadata, flt, i) ==
    IF i > Len(sparse_filter_keys) THEN TRUE
    ELSE LET key == sparse_filter_keys[i]
         IN IF MatchKeyActive(flt, key) /\ MetaGet(metadata, key) # flt[key]
            THEN FALSE
            ELSE MatchesFrom(metadata, flt, i + 1)

\* SparseRetriever._matches_filter(metadata, filters)
MatchesFilter(metadata, flt) == MatchesFrom(metadata, flt, 1)

ClauseKeyActiveWithNone(flt, key) == key \in DOMAIN flt

\* key in filters and filters[key] is not None   (DenseRetriever)
ClauseKeyActive(flt, key) == key \in DOMAIN flt /\ flt[key] # None

\* {key: {"$eq": value}}
EqClause(key, value) == [key |-> key, op |-> "$eq", value |-> value]

RECURSIVE BuildClauses(_, _)
\* the loop of _build_filter from the i-th key on: the clauses appended
BuildClauses(flt, i) ==
    IF i > Len(dense_filter_keys) THEN <<>>
    ELSE LET key == dense_filter_keys[i]
         IN (IF ClauseKeyActive(flt, key)
             THEN <<EqClause(key, flt[key])>> ELSE <<>>)
            \o BuildClauses(flt, i + 1)

WrapClausesAlwaysAnd(clauses) ==
    IF clauses = <<>> THEN [kind |-> "None", clauses |-> <<>>]
    ELSE [kind |-> "$and", clauses |-> clauses]

\* None | clauses[0] | {"$and": clauses}; kind tells the three shapes apart
WrapClauses(clauses) ==
    IF clauses = <<>> THEN [kind |-> "None", clauses |-> <<>>]
    ELSE IF Len(clauses) = 1 THEN [kind |-> "clause", clauses |-> clauses]
    ELSE [kind |-> "$and", clauses |-> clauses]

\* DenseRetriever._build_filter(filters)
BuildFilter(flt) == WrapClauses(BuildClauses(flt, 1))

\* the keys a caller may put in a filter: the four supported ones and "color"
FilterKeySpace == {"make", "model", "year", "subsystem", "color"}

\* the non-null values of a key (years are held as strings)
FilterValues(key) ==
    CASE key = "make" -> {"Honda", "Toyota"}
      [] key = "model" -> {"Civic"}
      [] key = "year" -> {"2022"}
      [] key = "subsystem" -> {"brake"}
      [] OTHER -> {"red"}

\* every dict over a subset of the keys, null values included
FilterDicts ==
    UNION { {f \in [S -> {None, "Honda", "Toyota", "Civic", "2022", "brake", "red"}] :
                \A k \in S : f[k] \in FilterValues(k) \cup {None}}
            : S \in SUBSET FilterKeySpace }

\* the metadata of some stored chunks
MetadataSpace ==
    { EmptyMap,
      [make |-> "Honda", model |-> "Civic", year |-> "2022", subsystem |-> "brake"],
      [make |-> "Toyota", model |-> "Civic", year |-> "2022"],
      [make |-> "Honda", year |-> "2022", color |-> "red"],
      [make |-> "Honda", model |-> None, subsystem |-> "brake", color |-> "blue"],
      [make |-> "Honda"] }

----------------------------------------------------------------------------
\* Comparison detection (HybridRetriever.retrieve)

\* str.lower(), token by token
LowerToken(t) ==
    CASE t = "Civic" -> "civic"
      [] t = "Compare" -> "compare"
      [] t = "F-150" -> "f-150"
      [] OTHER -> t

\* query.lower()
Lower(q) == [i \in 1..Len(q) |-> LowerToken(q[i])]

\* kw in s
Contains(s, word) == \E i \in 1..Len(s) : s[i] = word

comparison_keywords == <<"compare", "vs", "versus", "between", "difference">>

\* vehicle_terms.items(), in dictionary order
vehicle_terms ==
    << <<"civic", "Honda Civic">>,
       <<"camry", "Toyota Camry">>,
       <<"f-150", "Ford F-150">>,
       <<"f150", "Ford F-150">>,
       <<"model 3", "Tesla Model 3">> >>

\* is_comparison = any(kw in query.lower() for kw in comparison_keywords)
IsComparison(q) ==
    \E i \in 1..Len(comparison_keywords) : Contains(Lower(q), comparison_keywords[i])

RECURSIVE DetectFrom(_, _)
DetectFrom(q, i) ==
    IF i > Len(vehicle_terms) THEN <<>>
    ELSE (IF Contains(Lower(q), vehicle_terms[i][1])
          THEN <<vehicle_terms[i][2]>> ELSE <<>>) \o DetectFrom(q, i + 1)

\* for term, full_name in vehicle_terms.items(): if term in query.lower(): append
DetectVehicles(q) == DetectFrom(q, 1)

\* topic.replace(term, '') for every term and keyword, then strip()
StripTopic(t) ==
    SelectSeq(t, LAMBDA w :
        /\ \A i \in 1..Len(vehicle_terms) : w # vehicle_terms[i][1]
        /\ \A i \in 1..Len(comparison_keywords) : w # comparison_keywords[i])

\* f"{topic} {vehicle}"
VehicleQuery(t, vehicle) == Append(t, vehicle)

\* if len(vehicles) >= 2
MultipleVehicles(vs) == Len(vs) >= 2

\* the top_k the fan-out passes to _retrieve_single
FanOutTopK == 3

\* vehicle_results[:2]
PerVehicle == 2

\* all_results[:5]
TotalLimit == 5

----------------------------------------------------------------------------
\* The collaborators of the orchestrator, by their interface

\* the indexed chunks, as the dense index ranks them (descending similarity)
DenseRanking ==
    << RetrievedChunk("oil capacity civic", 91, [chunk_id |-> "c1", source_file |-> "civic_manual.pdf"]),
       RetrievedChunk("brake torque", 80, [chunk_id |-> "c3", source_file |-> "civic_manual.pdf"]),
       RetrievedChunk("towing f-150", 70, [chunk_id |-> "c4", source_file |-> "f150_manual.pdf"]),
       RetrievedChunk("tire pressure", 60, [chunk_id |-> "c5", source_file |-> "camry_manual.pdf"]),
       RetrievedChunk("battery model 3", 50, [chunk_id |-> "c6", source_file |-> "model3_manual.pdf"]),
       RetrievedChunk("oil filter", 40, [chunk_id |-> "c2", source_file |-> "civic_manual.pdf"]) >>

\* the same chunks as the sparse retriever ranks them (normalised BM25, top = 1.0)
SparseRanking ==
    << RetrievedChunk("oil capacity civic", ScoreDen, [chunk_id |-> "c1", source_file |-> "civic_manual.pdf"]),
       RetrievedChunk("oil filter", ScoreDen \div 2, [chunk_id |-> "c2", source_file |-> "civic_manual.pdf"]),
       RetrievedChunk("battery model 3", ScoreDen \div 4, [chunk_id |-> "c6", source_file |-> "model3_manual.pdf"]),
       RetrievedChunk("tire pressure", ScoreDen \div 8, [chunk_id |-> "c5", source_file |-> "camry_manual.pdf"]),
       RetrievedChunk("brake torque", ScoreDen \div 16, [chunk_id |-> "c3", source_file |-> "civic_manual.pdf"]),
       RetrievedChunk("towing f-150", ScoreDen \div 32, [chunk_id |-> "c4", source_file |-> "f150_manual.pdf"]) >>

\* what a failing collaborator raises
Errors == {"ServiceUnavailable", "RateLimited"}

\* DenseRetriever.retrieve: the index answers with at most top_k matches
DenseOutcomes(k) ==
    { Take(DenseRanking, n) : n \in {0, 1, Min(k, Len(DenseRanking))} }

\* SparseRetriever.retrieve: at most top_k results
SparseOutcomes(k) ==
    { Take(SparseRanking, n) : n \in {0, Min(2, k), Min(k, Len(SparseRanking))} }

\* the relevance score of the i-th result of a rerank response (descending)
RelevanceAt(i) == 100 - 5 * i

\* client.rerank(documents, top_n): m results, best first, each an index into
\* documents (0-based) and a relevance score; the service may rank the
\* documents as given or the other way round
RerankResponses(n_docs, top_n) ==
    { [i \in 1..m |-> [index |-> IF fwd THEN i - 1 ELSE n_docs - i,
                       relevance_score |-> RelevanceAt(i)]]
      : m \in {1, top_n}, fwd \in BOOLEAN }

\* top_n=min(self.top_n, len(candidates))
RerankTopN(top_n, candidates) == Min(top_n, Len(candidates))

RerankDocumentsReversed(cands) ==
    [i \in 1..Len(cands) |-> cands[Len(cands) + 1 - i].text]

\* documents = [c.text for c in candidates]
RerankDocuments(cands) == [i \in 1..Len(cands) |-> cands[i].text]

RerankBuildKeepScore(candidates, results) ==
    [i \in 1..Len(results) |-> candidates[results[i].index + 1]]

\* the loop over response.results that builds the reranked list
RerankBuild(candidates, results) ==
    [i \in 1..Len(results) |->
        RetrievedChunk(candidates[results[i].index + 1].text,
                       results[i].relevance_score,
                       candidates[results[i].index + 1].metadata)]

----------------------------------------------------------------------------
\* Inputs of retrieve()

QueryTokens == <<"Compare", "Civic", "camry", "f-150", "f150", "oil">>

\* the queries: every choice of at most MaxQueryLen of the tokens, in that order
QuerySpace ==
    { [i \in 1..Len(ix) |-> QueryTokens[ix[i]]] :
        ix \in { s \in UNION { [1..k -> 1..Len(QueryTokens)] : k \in 0..MaxQueryLen } :
                    \A i \in 1..(Len(s) - 1) : s[i] < s[i + 1] } }

\* a filter dict, by identity (None: no filters given)
FilterSpace == {None, "make=Honda"}

\* the configurations <<top_k, rerank_n>>: a small one and the largest one
Configs == {<<2, 1>>, <<MaxTopK, MaxRerankN>>}

----------------------------------------------------------------------------
\* HybridRetriever: retrieve() and _retrieve_single(), one action per stage call

\* a collaborator call either returns one of vals or raises one of Errors
StageOutcomes(vals) ==
    { [err |-> None, val |-> v] : v \in vals } \cup { [err |-> e, val |-> <<>>] : e \in Errors }

\* the entry the history keeps of a stage call
Call(op, q, f, raised) == [op |-> op, q |-> q, f |-> f, raised |-> raised]

\* the locals of _retrieve_single before its first statement
SingleLocalsFresh ==
    /\ dense_results' = <<>>
    /\ sparse_results' = <<>>
    /\ merged' = <<>>
    /\ reranked' = <<>>

singleLocals == <<dense_results, sparse_results, merged, reranked>>

configVars == <<top_k, rerank_n>>

callArgs == <<query, filters, path, vehicles>>

loopVars == <<vi, topic, single_query, single_top_k>>

\* no call in progress
HybridIdle ==
    /\ pc = "idle"
    /\ query = <<>>
    /\ filters = None
    /\ path = None
    /\ vehicles = <<>>
    /\ vi = 0
    /\ topic = <<>>
    /\ single_query = <<>>
    /\ single_top_k = 0
    /\ dense_results = <<>>
    /\ sparse_results = <<>>
    /\ merged = <<>>
    /\ reranked = <<>>
    /\ all_results = <<>>
    /\ origin = <<>>
    /\ result = <<>>
    /\ exc = None
    /\ calls = <<>>
    /\ rrf_args = <<>>
    /\ rerank_args = <<>>

\* HybridRetriever.__init__
HybridInit ==
    /\ \E c \in Configs : top_k = c[1] /\ rerank_n = c[2]
    /\ HybridIdle

\* retrieve(query, filters): comparison detection up to the first stage call
Retrieve(q, f) ==
    /\ pc = "idle"
    /\ query' = q
    /\ filters' = f
    /\ LET vs == IF IsComparison(q) THEN DetectVehicles(q) ELSE <<>>
           fan == IsComparison(q) /\ MultipleVehicles(vs)
           t == IF fan THEN StripTopic(Lower(q)) ELSE <<>>
       IN /\ vehicles' = vs
          /\ path' = IF fan THEN "comparison" ELSE "normal"
          /\ vi' = IF fan THEN 1 ELSE 0
          /\ topic' = t
          /\ single_query' = IF fan THEN VehicleQuery(t, vs[1]) ELSE q
          /\ single_top_k' = IF fan THEN FanOutTopK ELSE 0
    /\ pc' = "dense"
    /\ UNCHANGED <<notHybrid, configVars, singleLocals, all_results, origin, result, exc, calls,
                   rrf_args, rerank_args>>

\* a handler that swallows the exception and carries on with an empty result
RaiseSwallowed(e) ==
    /\ exc' = None
    /\ pc' = "single_return"
    /\ SingleLocalsFresh
    /\ UNCHANGED <<all_results, origin, rrf_args, rerank_args>>

\* an exception leaves _retrieve_single and retrieve: no handler catches it, the
\* frames and their locals are gone, and the caller of retrieve() holds the exception
Raise(e) ==
    /\ exc' = e
    /\ pc' = "raised"
    /\ SingleLocalsFresh
    /\ all_results' = <<>>
    /\ origin' = <<>>
    /\ rrf_args' = <<>>
    /\ rerank_args' = <<>>

\* the number of candidates each sub-retriever is asked for: the retrievers
\* were built with self.top_k and _retrieve_single never reads its top_k argument
CandidateLimit == top_k

\* dense_results = self.dense.retrieve(query, filters)
DenseStage ==
    /\ pc = "dense"
    /\ \E o \in StageOutcomes(DenseOutcomes(CandidateLimit)) :
          /\ calls' = Append(calls, Call("dense", single_query, filters, o.err))
          /\ IF o.err = None
             THEN /\ dense_results' = o.val
                  /\ pc' = "sparse"
                  /\ UNCHANGED <<exc, sparse_results, merged, reranked, all_results,
                                 origin, rrf_args, rerank_args>>
             ELSE Raise(o.err)
    /\ UNCHANGED <<notHybrid, configVars, callArgs, loopVars, result>>

\* sparse_results = self.sparse.retrieve(query, filters)
SparseStage ==
    /\ pc = "sparse"
    /\ \E o \in StageOutcomes(SparseOutcomes(CandidateLimit)) :
          /\ calls' = Append(calls, Call("sparse", single_query, filters, o.err))
          /\ IF o.err = None
             THEN /\ sparse_results' = o.val
                  /\ pc' = "fuse"
                  /\ UNCHANGED <<exc, dense_results, merged, reranked, all_results,
                                 origin, rrf_args, rerank_args>>
             ELSE Raise(o.err)
    /\ UNCHANGED <<notHybrid, configVars, callArgs, loopVars, result>>

FusionArgsSwapped == <<sparse_results, dense_results>>

\* the argument tuple of the merge
FusionArgs == <<dense_results, sparse_results>>

\* merged = self._reciprocal_rank_fusion(dense_results, sparse_results)
FuseStage ==
    /\ pc = "fuse"
    /\ rrf_args' = FusionArgs
    /\ merged' = ReciprocalRankFusion(FusionArgs)
    /\ calls' = Append(calls, Call("rrf", <<>>, None, None))
    /\ pc' = "rerank"
    /\ UNCHANGED <<notHybrid, configVars, callArgs, loopVars, dense_results, sparse_results,
                   reranked, all_results, origin, result, exc, rerank_args>>

\* the query handed to the reranker
RerankQuery == single_query

\* a fan-out that leaves the reranker out: the fused pool is cut to rerank_n
RerankStageBypassed ==
    /\ pc = "rerank"
    /\ IF path = "comparison"
       THEN /\ reranked' = Take(merged, rerank_n)
            /\ UNCHANGED <<calls, rerank_args>>
       ELSE /\ reranked' = merged
            /\ calls' = Append(calls, Call("rerank", RerankQuery, None, None))
            /\ rerank_args' = <<RerankQuery, merged>>
    /\ pc' = "single_return"
    /\ UNCHANGED <<exc, dense_results, sparse_results, merged, all_results, origin, rrf_args>>
    /\ UNCHANGED <<notHybrid, configVars, callArgs, loopVars, result>>

\* reranked = self.reranker.rerank(query, merged)
RerankStage ==
    /\ pc = "rerank"
    /\ IF merged = <<>>
       THEN \* if not candidates: return []
            /\ calls' = Append(calls, Call("rerank", RerankQuery, None, None))
            /\ rerank_args' = <<RerankQuery, merged>>
            /\ reranked' = <<>>
            /\ pc' = "single_return"
            /\ UNCHANGED <<exc, dense_results, sparse_results, merged, all_results,
                           origin, rrf_args>>
       ELSE \E o \in StageOutcomes(RerankResponses(Len(merged), RerankTopN(rerank_n, merged))) :
            /\ calls' = Append(calls, Call("rerank", RerankQuery, None, o.err))
            /\ IF o.err = None
               THEN /\ rerank_args' = <<RerankQuery, merged>>
                    /\ reranked' = RerankBuild(merged, o.val)
                    /\ pc' = "single_return"
                    /\ UNCHANGED <<exc, dense_results, sparse_results, merged,
                                   all_results, origin, rrf_args>>
               ELSE Raise(o.err)
    /\ UNCHANGED <<notHybrid, configVars, callArgs, loopVars, result>>

\* return self._retrieve_single(query, filters, top_k)
NormalReturn ==
    /\ pc = "single_return"
    /\ path = "normal"
    /\ result' = reranked
    /\ pc' = "done"
    /\ UNCHANGED <<notHybrid, configVars, callArgs, loopVars, singleLocals, all_results, origin,
                   exc, calls, rrf_args, rerank_args>>

\* all_results.extend(vehicle_results[:2]); then the next vehicle, or
\* return all_results[:5]
ExtendResults ==
    /\ pc = "single_return"
    /\ path = "comparison"
    /\ LET added == Take(reranked, PerVehicle)
           all == all_results \o added
       IN /\ all_results' = all
          /\ origin' = origin \o [j \in 1..Len(added) |-> vehicles[vi]]
          /\ IF vi < Len(vehicles)
             THEN /\ vi' = vi + 1
                  /\ topic' = StripTopic(topic)
                  /\ single_query' = VehicleQuery(StripTopic(topic), vehicles[vi + 1])
                  /\ pc' = "dense"
                  /\ rrf_args' = <<>>
                  /\ rerank_args' = <<>>
                  /\ result' = result
             ELSE /\ result' = Take(all, TotalLimit)
                  /\ pc' = "done"
                  /\ UNCHANGED <<vi, topic, single_query, rrf_args, rerank_args>>
    /\ SingleLocalsFresh
    /\ UNCHANGED <<notHybrid, configVars, callArgs, single_top_k, exc, calls>>

\* the caller has its list, or its exception; the retriever is ready again
Return ==
    /\ pc \in {"done", "raised"}
    /\ pc' = "idle"
    /\ query' = <<>>
    /\ filters' = None
    /\ path' = None
    /\ vehicles' = <<>>
    /\ vi' = 0
    /\ topic' = <<>>
    /\ single_query' = <<>>
    /\ single_top_k' = 0
    /\ SingleLocalsFresh
    /\ all_results' = <<>>
    /\ origin' = <<>>
    /\ result' = <<>>
    /\ exc' = None
    /\ calls' = <<>>
    /\ rrf_args' = <<>>
    /\ rerank_args' = <<>>
    /\ UNCHANGED <<notHybrid, configVars>>

HybridNext ==
    \/ \E q \in QuerySpace, f \in FilterSpace : Retrieve(q, f)
    \/ DenseStage
    \/ SparseStage
    \/ FuseStage
    \/ RerankStage
    \/ NormalReturn
    \/ ExtendResults
    \/ Return

----------------------------------------------------------------------------
\* The fusion merger applied to an argument tuple

FusionOff ==
    /\ result_lists = <<>>
    /\ fused = <<>>
    /\ fstate = "off"

FusionInit ==
    /\ result_lists \in FusionInputs
    /\ fused = <<>>
    /\ fstate = "ready"

\* merged = _reciprocal_rank_fusion(*result_lists)
FusionCall ==
    /\ fstate = "ready"
    /\ fused' = ReciprocalRankFusion(result_lists)
    /\ fstate' = "done"
    /\ UNCHANGED <<result_lists, notFusion>>

----------------------------------------------------------------------------
\* SparseRetriever (sparse_retriever.py)

\* _tokenise(text): the lower-cased alphanumeric runs (a text is held as its runs)
Tokenise(text) == Lower(text)

\* tokenised_corpus = [_tokenise(doc["text"]) for doc in corpus]
TokenisedCorpus(docs) == [i \in 1..Len(docs) |-> Tokenise(docs[i].text)]

\* how often a term occurs in a tokenised document
TermCount(doc, term) == Cardinality({j \in 1..Len(doc) : doc[j] = term})

RECURSIVE QueryScore(_, _)
\* the raw score of one document: the occurrences of the query's terms in it
\* (stands for the BM25 weight of rank_bm25, which grows with them as well)
QueryScore(doc, q) ==
    IF q = <<>> THEN 0 ELSE TermCount(doc, Head(q)) + QueryScore(doc, Tail(q))

\* self._bm25.get_scores(tokenised_query): one raw score per indexed document
Bm25GetScores(index, q) == [i \in 1..Len(index.docs) |-> QueryScore(index.docs[i], q)]

\* self._bm25 = None
Bm25None == [built |-> FALSE, docs |-> <<>>]

\* BM25Okapi(tokenised_corpus)
BM25Okapi(tokenised_corpus) == [built |-> TRUE, docs |-> tokenised_corpus]

IndexLoadedNever(index) == FALSE

\* self._bm25 is not None
IndexLoaded(index) == index.built

\* filters=None, held as a dict no caller passes
NoFilters == [None |-> None]

\* the truth value of `filters`: None and {} are false
FiltersTruthy(flt) == flt # NoFilters /\ DOMAIN flt # {}

\* pinecone_filter = self._build_filter(filters) if filters else None
DenseFilterArg(flt) == IF FiltersTruthy(flt) THEN BuildFilter(flt) ELSE WrapClauses(<<>>)

\* the post-filter of the sparse loop keeps the document:
\* not (filters and not self._matches_filter(meta, filters))
PostFilterKeeps(metadata, flt) == ~(FiltersTruthy(flt) /\ ~MatchesFilter(metadata, flt))

\* the index evaluates {key: {"$eq": value}} on stored metadata: the key is
\* present with that value
ClauseHolds(metadata, clause) ==
    /\ clause.op = "$eq"
    /\ clause.key \in DOMAIN metadata
    /\ metadata[clause.key] = clause.value

\* the index evaluates the filter of a query: None restricts nothing, one clause
\* must hold, {"$and": clauses} needs every clause
Satisfies(metadata, expr) ==
    \/ expr.kind = "None"
    \/ /\ expr.kind = "clause"
       /\ ClauseHolds(metadata, expr.clauses[1])
    \/ /\ expr.kind = "$and"
       /\ \A i \in 1..Len(expr.clauses) : ClauseHolds(metadata, expr.clauses[i])

\* raw_score / max_score, in units of 1/ScoreDen
NormScore(raw_score, max_score) == (ScoreDen \div max_score) * raw_score

\* scored[0][0] if scored and scored[0][0] > 0 else 1.0
MaxScore(order, scs) ==
    IF order # <<>> /\ scs[order[1]] > 0 THEN scs[order[1]] ELSE 1

BudgetSpentByPosition(results, i, k) == i > k

\* len(results) >= self.top_k
BudgetSpent(results, i, k) == Len(results) >= k

RECURSIVE SparseLoop(_, _, _, _, _, _, _)
\* the loop over scored from its i-th pair on; order holds the corpus
\* positions in the order of scored
SparseLoop(order, i, results, scs, corp, k, flt) ==
    IF i > Len(order) THEN results
    ELSE LET raw_score == scs[order[i]]
             doc == corp[order[i]]
         IN IF BudgetSpent(results, i, k) THEN results
            ELSE IF raw_score <= 0 THEN results
            ELSE IF FiltersTruthy(flt) /\ ~MatchesFilter(doc.metadata, flt)
            THEN SparseLoop(order, i + 1, results, scs, corp, k, flt)
            ELSE SparseLoop(order, i + 1,
                            Append(results,
                                   RetrievedChunk(doc.text,
                                                  NormScore(raw_score, MaxScore(order, scs)),
                                                  doc.metadata)),
                            scs, corp, k, flt)

\* sorted(zip(scores, self._corpus), key=lambda pair: pair[0], reverse=True),
\* as the corpus positions of its pairs (zip stops at the shorter argument)
ScoredOrder(scs, corp) ==
    SortDesc(<<>>, [i \in 1..Min(Len(scs), Len(corp)) |-> i], scs)

\* retrieve() from the sort to the return
SparseCollect(scs, corp, k, flt) ==
    SparseLoop(ScoredOrder(scs, corp), 1, <<>>, scs, corp, k, flt)

\* a stored chunk: its text and its remaining metadata
Doc(text, metadata) == [text |-> text, metadata |-> metadata]

\* the contents the vector store can have: empty, a first corpus, and the
\* corpus after a re-ingestion that dropped one chunk and added another
StoreVersions ==
    { <<>>,
      << Doc(<<"oil", "camry", "oil">>, [make |-> "Toyota", model |-> "Camry"]),
         Doc(<<"Civic", "oil">>, [make |-> "Honda", model |-> "Civic"]),
         Doc(<<"civic", "brake">>, [make |-> "Honda", year |-> "2022"]),
         Doc(<<"camry", "brake">>, [make |-> "Toyota"]) >>,
      << Doc(<<"oil", "oil", "oil">>, [make |-> "Honda", model |-> "Civic"]),
         Doc(<<"oil", "camry", "oil">>, [make |-> "Toyota", model |-> "Camry"]),
         Doc(<<"civic", "brake">>, [make |-> "Honda", year |-> "2022"]) >> }

\* the queries of the sparse retriever's callers
SparseQueries == { <<"oil">>, <<"Civic", "oil">>, <<"wiper">> }

\* the filters of the sparse retriever's callers
SparseFilters ==
    { NoFilters, EmptyMap, [make |-> "Honda"], [make |-> "Toyota", year |-> None] }

\* the configured top_k values
SparseTopKs == {1, MaxTopK - 2}

\* the sparse retriever before any caller exists
SparseOff ==
    /\ s_top_k = 1
    /\ store = <<>>
    /\ bm25 = Bm25None
    /\ corpus = <<>>
    /\ ncalls = 0
    /\ fetches = 0
    /\ builds = 0
    /\ built_from = <<>>
    /\ spc = EmptyMap
    /\ squery = EmptyMap
    /\ sfilters = EmptyMap
    /\ local_corpus = EmptyMap
    /\ scores = EmptyMap
    /\ sresult = EmptyMap
    /\ sexc = EmptyMap

\* SparseRetriever.__init__, with the callers that will use the object
SparseInit(callers) ==
    /\ s_top_k \in SparseTopKs
    /\ store \in StoreVersions
    /\ bm25 = Bm25None
    /\ corpus = <<>>
    /\ ncalls = 0
    /\ fetches = 0
    /\ builds = 0
    /\ built_from = <<>>
    /\ spc = [t \in callers |-> "idle"]
    /\ squery = [t \in callers |-> <<>>]
    /\ sfilters = [t \in callers |-> NoFilters]
    /\ local_corpus = [t \in callers |-> <<>>]
    /\ scores = [t \in callers |-> <<>>]
    /\ sresult = [t \in callers |-> <<>>]
    /\ sexc = [t \in callers |-> None]

\* caller t enters retrieve(query, filters)
SparseRetrieve(t, q, f) ==
    /\ spc[t] \in {"idle", "returned", "raised"}
    /\ ncalls < MaxCalls
    /\ ncalls' = ncalls + 1
    /\ squery' = [squery EXCEPT ![t] = q]
    /\ sfilters' = [sfilters EXCEPT ![t] = f]
    /\ local_corpus' = [local_corpus EXCEPT ![t] = <<>>]
    /\ scores' = [scores EXCEPT ![t] = <<>>]
    /\ sresult' = [sresult EXCEPT ![t] = <<>>]
    /\ sexc' = [sexc EXCEPT ![t] = None]
    /\ spc' = [spc EXCEPT ![t] = "ensure"]
    /\ UNCHANGED <<s_top_k, store, bm25, corpus, fetches, builds, built_from, notSparse>>

\* an exception leaves caller t's retrieve()
SparseRaise(t, e) ==
    /\ sexc' = [sexc EXCEPT ![t] = e]
    /\ spc' = [spc EXCEPT ![t] = "raised"]
    /\ local_corpus' = [local_corpus EXCEPT ![t] = <<>>]

\* _ensure_index_loaded(): if self._bm25 is not None: return
EnsureIndexLoaded(t) ==
    /\ spc[t] = "ensure"
    /\ spc' = [spc EXCEPT ![t] = IF IndexLoaded(bm25) THEN "score" ELSE "fetch"]
    /\ UNCHANGED <<sparseShared, squery, sfilters, local_corpus, scores, sresult, sexc,
                   notSparse>>

\* _ensure_index_loaded(): index.list and index.fetch read the whole store, or
\* raise; an empty store sets self._corpus = [] at once
FetchCorpus(t) ==
    /\ spc[t] = "fetch"
    /\ fetches' = fetches + 1
    /\ \E o \in StageOutcomes({store}) :
          IF o.err # None
          THEN /\ SparseRaise(t, o.err)
               /\ UNCHANGED corpus
          ELSE IF o.val = <<>>
          THEN /\ corpus' = <<>>
               /\ spc' = [spc EXCEPT ![t] = "build_empty"]
               /\ UNCHANGED <<local_corpus, sexc>>
          ELSE /\ local_corpus' = [local_corpus EXCEPT ![t] = o.val]
               /\ spc' = [spc EXCEPT ![t] = "set_corpus"]
               /\ UNCHANGED <<corpus, sexc>>
    /\ UNCHANGED <<s_top_k, store, bm25, ncalls, builds, built_from, squery, sfilters,
                   scores, sresult, notSparse>>

\* _ensure_index_loaded(): self._bm25 = BM25Okapi([[]]) on an empty store; the
\* library, which is not part of the sources, either builds the structure
\* or fails on the empty vocabulary
BuildEmptyIndex(t) ==
    /\ spc[t] = "build_empty"
    /\ \E built \in BOOLEAN :
          IF built
          THEN /\ bm25' = BM25Okapi(<< <<>> >>)
               /\ builds' = builds + 1
               /\ built_from' = <<>>
               /\ spc' = [spc EXCEPT ![t] = "score"]
               /\ UNCHANGED <<local_corpus, sexc>>
          ELSE /\ SparseRaise(t, "ZeroDivisionError")
               /\ UNCHANGED <<bm25, builds, built_from>>
    /\ UNCHANGED <<s_top_k, store, corpus, ncalls, fetches, squery, sfilters, scores,
                   sresult, notSparse>>

\* _ensure_index_loaded(): self._corpus = corpus
SetCorpus(t) ==
    /\ spc[t] = "set_corpus"
    /\ corpus' = local_corpus[t]
    /\ spc' = [spc EXCEPT ![t] = "set_bm25"]
    /\ UNCHANGED <<s_top_k, store, bm25, ncalls, fetches, builds, built_from, squery,
                   sfilters, local_corpus, scores, sresult, sexc, notSparse>>

\* _ensure_index_loaded(): self._bm25 = BM25Okapi(tokenised_corpus)
SetBm25(t) ==
    /\ spc[t] = "set_bm25"
    /\ bm25' = BM25Okapi(TokenisedCorpus(local_corpus[t]))
    /\ builds' = builds + 1
    /\ built_from' = local_corpus[t]
    /\ local_corpus' = [local_corpus EXCEPT ![t] = <<>>]
    /\ spc' = [spc EXCEPT ![t] = "score"]
    /\ UNCHANGED <<s_top_k, store, corpus, ncalls, fetches, squery, sfilters, scores,
                   sresult, sexc, notSparse>>

\* retrieve(): scores = self._bm25.get_scores(_tokenise(query))
GetScores(t) ==
    /\ spc[t] = "score"
    /\ scores' = [scores EXCEPT ![t] = Bm25GetScores(bm25, Tokenise(squery[t]))]
    /\ spc' = [spc EXCEPT ![t] = "collect"]
    /\ UNCHANGED <<sparseShared, squery, sfilters, local_corpus, sresult, sexc, notSparse>>

\* retrieve(): sort the scores with self._corpus, collect the results, return
Collect(t) ==
    /\ spc[t] = "collect"
    /\ sresult' = [sresult EXCEPT ![t] = SparseCollect(scores[t], corpus, s_top_k, sfilters[t])]
    /\ spc' = [spc EXCEPT ![t] = "returned"]
    /\ UNCHANGED <<sparseShared, squery, sfilters, local_corpus, scores, sexc, notSparse>>

\* a re-ingestion changes the vector store
StoreChange ==
    /\ \E v \in StoreVersions \ {store} : store' = v
    /\ UNCHANGED <<s_top_k, bm25, corpus, ncalls, fetches, builds, built_from,
                   sparseLocals, notSparse>>

\* the queries of the concurrent callers
ConcurrentQueries == { <<"oil">> }

\* the one caller of the sequential runs
OneCaller == {"c1"}

\* the callers of the concurrent runs
ConcurrentCallers == {"c1", "c2"}

----------------------------------------------------------------------------
\* Reranker.rerank against the rerank service (reranker.py)

\* candidate chunks with fused scores; two of them have the same text
RerankChunks ==
    { RetrievedChunk("oil capacity civic", 33, [chunk_id |-> "c1", source_file |-> "civic_manual.pdf"]),
      RetrievedChunk("oil filter", 32, [chunk_id |-> "c2", source_file |-> "civic_manual.pdf"]),
      RetrievedChunk("oil filter", 16, [chunk_id |-> "c7", source_file |-> "camry_manual.pdf"]),
      RetrievedChunk("brake torque", 8, [chunk_id |-> "c3", source_file |-> "civic_manual.pdf"]) }

\* the candidate lists handed to rerank()
CandidateLists == InjSeqs(RerankChunks, MaxCandidates)

\* the configured top_n values
RerankTopNs == {1, 2, MaxRerankN}

RerankOff ==
    /\ rr_top_n = MaxRerankN
    /\ rr_query = <<>>
    /\ rr_candidates = <<>>
    /\ service_calls = <<>>
    /\ rr_response = <<>>
    /\ rr_out = <<>>
    /\ rr_exc = None
    /\ rstate = "off"

\* Reranker.__init__ and the arguments of one rerank() call
RerankInit ==
    /\ rr_top_n \in RerankTopNs
    /\ rr_query = <<"oil">>
    /\ rr_candidates \in CandidateLists
    /\ service_calls = <<>>
    /\ rr_response = <<>>
    /\ rr_out = <<>>
    /\ rr_exc = None
    /\ rstate = "ready"

\* the request self.client.rerank receives
RerankRequest(q, cands, top_n) ==
    [query |-> q, documents |-> RerankDocuments(cands), top_n |-> RerankTopN(top_n, cands)]

\* Reranker.rerank(query, candidates)
Rerank ==
    /\ rstate = "ready"
    /\ IF rr_candidates = <<>>
       THEN \* if not candidates: return []
            /\ rr_out' = <<>>
            /\ rstate' = "done"
            /\ UNCHANGED <<service_calls, rr_response, rr_exc>>
       ELSE LET request == RerankRequest(rr_query, rr_candidates, rr_top_n)
            IN /\ service_calls' = Append(service_calls, request)
               /\ \E o \in StageOutcomes(RerankResponses(Len(request.documents), request.top_n)) :
                     IF o.err = None
                     THEN /\ rr_response' = o.val
                          /\ rr_out' = RerankBuild(rr_candidates, o.val)
                          /\ rstate' = "done"
                          /\ UNCHANGED rr_exc
                     ELSE /\ rr_exc' = o.err
                          /\ rstate' = "raised"
                          /\ UNCHANGED <<rr_response, rr_out>>
    /\ UNCHANGED <<rr_top_n, rr_query, rr_candidates, notRerank>>

----------------------------------------------------------------------------
\* The filter functions applied to a metadata dict and a filter dict

FilterOff ==
    /\ fmeta = EmptyMap
    /\ ffilters = EmptyMap
    /\ matches = FALSE
    /\ mstate = "off"
    /\ pinecone_filter = WrapClauses(<<>>)
    /\ bstate = "off"

FilterInit ==
    /\ fmeta \in MetadataSpace
    /\ ffilters \in FilterDicts
    /\ matches = FALSE
    /\ mstate = "ready"
    /\ pinecone_filter = WrapClauses(<<>>)
    /\ bstate = "ready"

\* SparseRetriever._matches_filter(meta, filters)
MatchesFilterCall ==
    /\ mstate = "ready"
    /\ matches' = MatchesFilter(fmeta, ffilters)
    /\ mstate' = "done"
    /\ UNCHANGED <<fmeta, ffilters, pinecone_filter, bstate, notFilter>>

\* DenseRetriever._build_filter(filters)
BuildFilterCall ==
    /\ bstate = "ready"
    /\ pinecone_filter' = BuildFilter(ffilters)
    /\ bstate' = "done"
    /\ UNCHANGED <<fmeta, ffilters, matches, mstate, notFilter>>

HybridOff ==
    /\ top_k = MaxTopK
    /\ rerank_n = MaxRerankN
    /\ HybridIdle

----------------------------------------------------------------------------
\* Embedder._call_api: one batch, retried with exponential back-off

\* _MAX_RETRIES
MAX_RETRIES == 5

\* _RETRY_BASE_DELAY, in seconds
RETRY_BASE_DELAY == 1

RECURSIVE Pow2(_)
\* 2 ** n
Pow2(n) == IF n = 0 THEN 1 ELSE 2 * Pow2(n - 1)

\* delay = _RETRY_BASE_DELAY * (2 ** attempt)
RetryDelay(n) == RETRY_BASE_DELAY * Pow2(n)

\* the embedding the API computes for a text
EmbeddingOf(text) == <<"vector of", text>>

\* response.data of a successful call: one object per input, with the index of
\* its input, in the order of the inputs or the other way round
ResponseData(texts) ==
    { [i \in 1..Len(texts) |->
          LET j == IF fwd THEN i ELSE Len(texts) + 1 - i
          IN [index |-> j - 1, embedding |-> EmbeddingOf(texts[j])]]
      : fwd \in BOOLEAN }

\* what one self.client.embeddings.create call does: it answers, or raises
\* RateLimitError, an APIStatusError with a status code, or a connection error
\* (which is no APIStatusError)
ApiOutcomes(texts) ==
    { [kind |-> "ok", status_code |-> 200, data |-> d] : d \in ResponseData(texts) }
    \cup { [kind |-> "RateLimitError", status_code |-> 429, data |-> <<>>] }
    \cup { [kind |-> "APIStatusError", status_code |-> c, data |-> <<>>] : c \in {400, 499, 500, 503} }
    \cup { [kind |-> "APIConnectionError", status_code |-> 0, data |-> <<>>] }

RetryableAnyStatus(o) == o.kind \in {"RateLimitError", "APIStatusError"}

\* the handlers that sleep and go on: except RateLimitError, and
\* except APIStatusError with exc.status_code >= 500
Retryable(o) ==
    \/ o.kind = "RateLimitError"
    \/ o.kind = "APIStatusError" /\ o.status_code >= 500

\* sorted(response.data, key=lambda obj: obj.index), then the embeddings
SortedEmbeddings(data) ==
    [i \in 1..Len(data) |-> (CHOOSE d \in Range(data) : d.index = i - 1).embedding]

\* the batches handed to _call_api
TextBatches == { <<"t1">>, <<"t1", "t2">> }

EmbedOff ==
    /\ e_pc = "off"
    /\ e_texts = <<>>
    /\ attempt = 0
    /\ api_calls = <<>>
    /\ slept = <<>>
    /\ e_out = <<>>
    /\ e_exc = None

\* Embedder.__init__: no call yet
EmbedInit ==
    /\ e_pc = "ready"
    /\ e_texts = <<>>
    /\ attempt = 0
    /\ api_calls = <<>>
    /\ slept = <<>>
    /\ e_out = <<>>
    /\ e_exc = None

\* _call_api(texts): up to the first pass of `for attempt in range(_MAX_RETRIES)`
CallApi(texts) ==
    /\ e_pc = "ready"
    /\ e_texts' = texts
    /\ attempt' = 0
    /\ e_pc' = IF 0 < MAX_RETRIES THEN "calling" ELSE "raised"
    /\ e_exc' = IF 0 < MAX_RETRIES THEN None ELSE "RuntimeError"
    /\ UNCHANGED <<api_calls, slept, e_out, notEmbed>>

\* one pass of the loop: the API call and the handler its outcome selects;
\* after the last pass, raise RuntimeError
Attempt ==
    /\ e_pc = "calling"
    /\ \E o \in ApiOutcomes(e_texts) :
          /\ api_calls' = Append(api_calls, o)
          /\ IF o.kind = "ok"
             THEN /\ e_out' = SortedEmbeddings(o.data)
                  /\ e_pc' = "returned"
                  /\ UNCHANGED <<attempt, slept, e_exc>>
             ELSE IF Retryable(o)
             THEN /\ slept' = Append(slept, RetryDelay(attempt))
                  /\ attempt' = attempt + 1
                  /\ e_pc' = IF attempt + 1 < MAX_RETRIES THEN "calling" ELSE "raised"
                  /\ e_exc' = IF attempt + 1 < MAX_RETRIES THEN None ELSE "RuntimeError"
                  /\ UNCHANGED e_out
             ELSE /\ e_exc' = o.kind
                  /\ e_pc' = "raised"
                  /\ UNCHANGED <<attempt, slept, e_out>>
    /\ UNCHANGED <<e_texts, notEmbed>>

----------------------------------------------------------------------------
\* The conversation store and the response cache, as the chat endpoint uses them

\* get_history_for_prompt(conversation_id, max_messages=20)
HISTORY_MAX == 20

\* a stored message (timestamps and metadata are left out)
StoredMessage(role, content) == [role |-> role, content |-> content]

\* s[-n:]
LastN(s, n) == SubSeq(s, Max(1, Len(s) - n + 1), Len(s))

\* dict[key] = value
MapPut(f, k, v) == [x \in DOMAIN f \cup {k} |-> IF x = k THEN v ELSE f[x]]

\* str(uuid.uuid4()): the n-th id handed out
ConvIdOf(n) ==
    CASE n = 1 -> "conv1"
      [] n = 2 -> "conv2"
      [] n = 3 -> "conv3"
      [] OTHER -> "conv4"

\* an id no stored conversation has (conversations are never deleted here)
FreshId(st) == ConvIdOf(Cardinality(DOMAIN st) + 1)

\* filters or {}
FiltersOrEmpty(flt) == IF FiltersTruthy(flt) THEN flt ELSE EmptyMap

\* ConversationStore.create: the row added
StoreCreate(st, id, flt) ==
    MapPut(st, id, [filters |-> FiltersOrEmpty(flt), messages |-> <<>>])

\* ConversationStore.append_message on an existing conversation
StoreAppend(st, id, role, content) ==
    [st EXCEPT ![id].messages = Append(@, StoredMessage(role, content))]

\* ConversationStore.update_filters on an existing conversation
StoreUpdateFilters(st, id, flt) == [st EXCEPT ![id].filters = flt]

\* ConversationStore.get_history_for_prompt: [] for an unknown id
HistoryForPrompt(st, id) ==
    IF id \notin DOMAIN st THEN <<>> ELSE LastN(st[id].messages, HISTORY_MAX)

\* _cache_key(query, filters): the digest of {"q": query, "f": filters or {}},
\* taken as free of collisions
CacheKey(message, flt) == <<message, FiltersOrEmpty(flt)>>

\* None, where a dict is expected
NoResult == [None |-> None]

\* _cache_get(key)
CacheGet(c, key) == IF key \in DOMAIN c THEN c[key] ELSE NoResult

\* response_data of a generated answer
ChatResponseData(id, answer) == [conversation_id |-> id, answer |-> answer, cached |-> FALSE]

ReadsCacheAlways(h) == Len(h) >= 0

\* if not history: cached_result = _cache_get(cache_key)
ReadsCache(h) == h = <<>>

\* if not history: _cache_set(cache_key, response_data)
WritesCache(h) == h = <<>>

\* the entry the history keeps of a collaborator call
ChatCall(op, raised) == [op |-> op, raised |-> raised]

\* the questions of the callers
ChatMessages == {"q1", "q2"}

\* the filters of the callers: none, or a make
ChatFilters == {NoFilters, [make |-> "Honda"]}

\* the requests a caller may send, given the stored conversations
ChatRequests(st) ==
    [conversation_id : {None, "unknown"} \cup DOMAIN st,
     message : ChatMessages,
     filters : ChatFilters]

\* what the retriever returns
ChunkLists == {<<>>, <<"c1">>}

\* what the generator answers
Answers == {"a1", "a2"}

\* what a failing database or cache call raises
DbOutcomes == {None, "OperationalError"}
RedisOutcomes == {None, "RedisError"}

NoRequest == [conversation_id |-> None, message |-> None, filters |-> NoFilters]

ChatLocalsIdle ==
    /\ c_request = NoRequest
    /\ c_conv_id = None
    /\ c_history = <<>>
    /\ c_cache_key = <<>>
    /\ c_cached_result = NoResult
    /\ c_chunks = <<>>
    /\ c_result = None
    /\ c_response = NoResult
    /\ c_exc = None
    /\ c_calls = <<>>
    /\ store_before = EmptyMap
    /\ cache_before = EmptyMap

ChatOff ==
    /\ conversations = EmptyMap
    /\ cache = EmptyMap
    /\ nreq = 0
    /\ c_pc = "off"
    /\ ChatLocalsIdle

\* startup(): an empty database and an empty cache
ChatInit ==
    /\ conversations = EmptyMap
    /\ cache = EmptyMap
    /\ nreq = 0
    /\ c_pc = "idle"
    /\ ChatLocalsIdle

\* an exception leaves chat(): no handler catches it
ChatRaise(e) ==
    /\ c_exc' = e
    /\ c_pc' = "failed"

\* a request arrives
ChatBegin(req) ==
    /\ c_pc = "idle"
    /\ nreq < MaxRequests
    /\ nreq' = nreq + 1
    /\ c_request' = req
    /\ store_before' = conversations
    /\ cache_before' = cache
    /\ c_pc' = "conversation"
    /\ UNCHANGED <<conversations, cache, c_conv_id, c_history, c_cache_key, c_cached_result,
                   c_chunks, c_result, c_response, c_exc, c_calls, notChat>>

\* 1. Resolve or create conversation
ResolveConversation ==
    /\ c_pc = "conversation"
    /\ \E db \in DbOutcomes :
          IF c_request.conversation_id = None
          THEN /\ c_calls' = Append(c_calls, ChatCall("create", db))
               /\ IF db = None
                  THEN /\ conversations' =
                              StoreCreate(conversations, FreshId(conversations), c_request.filters)
                       /\ c_conv_id' = FreshId(conversations)
                       /\ c_pc' = "history"
                       /\ UNCHANGED c_exc
                  ELSE /\ ChatRaise(db)
                       /\ UNCHANGED <<conversations, c_conv_id>>
          ELSE /\ c_conv_id' = c_request.conversation_id
               /\ IF FiltersTruthy(c_request.filters)
                  THEN LET err == IF db # None THEN db
                                  ELSE IF c_request.conversation_id \notin DOMAIN conversations
                                       THEN "ValueError" ELSE None
                       IN /\ c_calls' = Append(c_calls, ChatCall("update_filters", err))
                          /\ IF err = None
                             THEN /\ conversations' =
                                         StoreUpdateFilters(conversations,
                                                            c_request.conversation_id,
                                                            c_request.filters)
                                  /\ c_pc' = "history"
                                  /\ UNCHANGED c_exc
                             ELSE /\ ChatRaise(err)
                                  /\ UNCHANGED conversations
                  ELSE /\ db = None
                       /\ c_pc' = "history"
                       /\ UNCHANGED <<conversations, c_exc, c_calls>>
    /\ UNCHANGED <<cache, nreq, c_request, c_history, c_cache_key, c_cached_result, c_chunks,
                   c_result, c_response, store_before, cache_before, notChat>>

\* 2. Cache check: the history, the key, and the lookup when there is no history
LoadHistory ==
    /\ c_pc = "history"
    /\ \E db \in DbOutcomes, rd \in RedisOutcomes :
          IF db # None
          THEN /\ rd = None
               /\ c_calls' = Append(c_calls, ChatCall("get_history_for_prompt", db))
               /\ ChatRaise(db)
               /\ UNCHANGED <<c_history, c_cache_key, c_cached_result>>
          ELSE LET h == HistoryForPrompt(conversations, c_conv_id)
                   key == CacheKey(c_request.message, c_request.filters)
               IN /\ c_history' = h
                  /\ c_cache_key' = key
                  /\ IF ReadsCache(h)
                     THEN /\ c_calls' = c_calls \o << ChatCall("get_history_for_prompt", None),
                                                      ChatCall("cache_get", rd) >>
                          /\ IF rd = None
                             THEN /\ c_cached_result' = CacheGet(cache, key)
                                  /\ c_pc' = IF CacheGet(cache, key) # NoResult
                                             THEN "hit_user" ELSE "retrieve"
                                  /\ UNCHANGED c_exc
                             ELSE /\ ChatRaise(rd)
                                  /\ UNCHANGED c_cached_result
                     ELSE /\ rd = None
                          /\ c_calls' = Append(c_calls, ChatCall("get_history_for_prompt", None))
                          /\ c_pc' = "retrieve"
                          /\ UNCHANGED <<c_cached_result, c_exc>>
    /\ UNCHANGED <<conversations, cache, nreq, c_request, c_conv_id, c_chunks, c_result,
                   c_response, store_before, cache_before, notChat>>

OnRetrieveErrorSwallowed(e) ==
    /\ c_chunks' = <<>>
    /\ c_pc' = "generate"
    /\ UNCHANGED c_exc

\* the retriever raised: the exception leaves chat()
OnRetrieveError(e) ==
    /\ ChatRaise(e)
    /\ UNCHANGED c_chunks

\* 3. Retrieve
RetrieveStep ==
    /\ c_pc = "retrieve"
    /\ \E o \in StageOutcomes(ChunkLists) :
          /\ c_calls' = Append(c_calls, ChatCall("retrieve", o.err))
          /\ IF o.err = None
             THEN /\ c_chunks' = o.val
                  /\ c_pc' = "generate"
                  /\ UNCHANGED c_exc
             ELSE OnRetrieveError(o.err)
    /\ UNCHANGED <<conversations, cache, nreq, c_request, c_conv_id, c_history, c_cache_key,
                   c_cached_result, c_result, c_response, store_before, cache_before, notChat>>

\* 4. Generate
GenerateStep ==
    /\ c_pc = "generate"
    /\ \E o \in StageOutcomes(Answers) :
          /\ c_calls' = Append(c_calls, ChatCall("generate", o.err))
          /\ IF o.err = None
             THEN /\ c_result' = o.val
                  /\ c_pc' = "miss_user"
                  /\ UNCHANGED c_exc
             ELSE /\ ChatRaise(o.err)
                  /\ UNCHANGED c_result
    /\ UNCHANGED <<conversations, cache, nreq, c_request, c_conv_id, c_history, c_cache_key,
                   c_cached_result, c_chunks, c_response, store_before, cache_before, notChat>>

\* what an append_message call on conversation id raises, if anything
AppendError(st, id, db) ==
    IF db # None THEN db ELSE IF id \notin DOMAIN st THEN "ValueError" ELSE None

\* _store.append_message(conv_id, role="user", content=request.message), on a
\* cache hit and after generation
AppendUser ==
    /\ c_pc \in {"hit_user", "miss_user"}
    /\ \E db \in DbOutcomes :
          LET err == AppendError(conversations, c_conv_id, db)
          IN /\ c_calls' = Append(c_calls, ChatCall("append_user", err))
             /\ IF err = None
                THEN /\ conversations' =
                            StoreAppend(conversations, c_conv_id, "user", c_request.message)
                     /\ c_pc' = IF c_pc = "hit_user" THEN "hit_assistant" ELSE "miss_assistant"
                     /\ UNCHANGED c_exc
                ELSE /\ ChatRaise(err)
                     /\ UNCHANGED conversations
    /\ UNCHANGED <<cache, nreq, c_request, c_conv_id, c_history, c_cache_key, c_cached_result,
                   c_chunks, c_result, c_response, store_before, cache_before, notChat>>

\* _store.append_message(conv_id, role="assistant", ...); on a cache hit the
\* cached entry is then returned with this conversation's id and cached=True
AppendAssistant ==
    /\ c_pc \in {"hit_assistant", "miss_assistant"}
    /\ \E db \in DbOutcomes :
          LET err == AppendError(conversations, c_conv_id, db)
              content == IF c_pc = "hit_assistant" THEN c_cached_result.answer ELSE c_result
          IN /\ c_calls' = Append(c_calls, ChatCall("append_assistant", err))
             /\ IF err = None
                THEN /\ conversations' =
                            StoreAppend(conversations, c_conv_id, "assistant", content)
                     /\ IF c_pc = "hit_assistant"
                        THEN /\ c_response' = [c_cached_result EXCEPT
                                                  !.conversation_id = c_conv_id,
                                                  !.cached = TRUE]
                             /\ c_pc' = "done"
                        ELSE /\ c_pc' = "respond"
                             /\ UNCHANGED c_response
                     /\ UNCHANGED c_exc
                ELSE /\ ChatRaise(err)
                     /\ UNCHANGED <<conversations, c_response>>
    /\ UNCHANGED <<cache, nreq, c_request, c_conv_id, c_history, c_cache_key, c_cached_result,
                   c_chunks, c_result, store_before, cache_before, notChat>>

\* 6. Build response & cache
Respond ==
    /\ c_pc = "respond"
    /\ LET data == ChatResponseData(c_conv_id, c_result)
       IN IF WritesCache(c_history)
          THEN \E rd \in RedisOutcomes :
                  /\ c_calls' = Append(c_calls, ChatCall("cache_set", rd))
                  /\ IF rd = None
                     THEN /\ cache' = MapPut(cache, c_cache_key, data)
                          /\ c_response' = data
                          /\ c_pc' = "done"
                          /\ UNCHANGED c_exc
                     ELSE /\ ChatRaise(rd)
                          /\ UNCHANGED <<cache, c_response>>
          ELSE /\ c_response' = data
               /\ c_pc' = "done"
               /\ UNCHANGED <<cache, c_exc, c_calls>>
    /\ UNCHANGED <<conversations, nreq, c_request, c_conv_id, c_history, c_cache_key,
                   c_cached_result, c_chunks, c_result, store_before, cache_before, notChat>>

\* the caller has its response, or its error; the endpoint serves the next request
ChatEnd ==
    /\ c_pc \in {"done", "failed"}
    /\ c_pc' = "idle"
    /\ c_request' = NoRequest
    /\ c_conv_id' = None
    /\ c_history' = <<>>
    /\ c_cache_key' = <<>>
    /\ c_cached_result' = NoResult
    /\ c_chunks' = <<>>
    /\ c_result' = None
    /\ c_response' = NoResult
    /\ c_exc' = None
    /\ c_calls' = <<>>
    /\ store_before' = EmptyMap
    /\ cache_before' = EmptyMap
    /\ UNCHANGED <<conversations, cache, nreq, notChat>>

----------------------------------------------------------------------------
\* ConversationStore.append_message under concurrent callers: each call opens
\* its own session, reads the row, and commits the whole messages list

\* the callers appending to the same conversation
AppendCallers == {"A", "B"}

\* the content of the n-th message of a caller
ContentOf(t, n) == <<t, n>>

AppendOff ==
    /\ am_stored = <<>>
    /\ am_pc = [t \in AppendCallers |-> "off"]
    /\ am_content = [t \in AppendCallers |-> <<>>]
    /\ am_messages = [t \in AppendCallers |-> <<>>]
    /\ am_returned = [t \in AppendCallers |-> <<>>]

\* a conversation just created: messages=[]
AppendInit ==
    /\ am_stored = <<>>
    /\ am_pc = [t \in AppendCallers |-> "idle"]
    /\ am_content = [t \in AppendCallers |-> <<>>]
    /\ am_messages = [t \in AppendCallers |-> <<>>]
    /\ am_returned = [t \in AppendCallers |-> <<>>]

\* conv = db.query(Conversation)...one_or_none(); messages = list(conv.messages);
\* messages.append({...}): the row as committed when the query ran, plus the new
\* message, held in the caller's session
AppendLoad(t) ==
    /\ am_pc[t] = "idle"
    /\ Len(am_returned[t]) < MaxAppends
    /\ am_content' = [am_content EXCEPT ![t] = ContentOf(t, Len(am_returned[t]) + 1)]
    /\ am_messages' = [am_messages EXCEPT ![t] =
                          Append(am_stored, ContentOf(t, Len(am_returned[t]) + 1))]
    /\ am_pc' = [am_pc EXCEPT ![t] = "loaded"]
    /\ UNCHANGED <<am_stored, am_returned, notAppend>>

\* conv.messages = messages; db.commit(): UPDATE ... SET messages = <the list>
CommitValue(t) == am_messages[t]

\* the commit, and the return of append_message
AppendCommit(t) ==
    /\ am_pc[t] = "loaded"
    /\ am_stored' = CommitValue(t)
    /\ am_returned' = [am_returned EXCEPT ![t] = Append(@, am_content[t])]
    /\ am_pc' = [am_pc EXCEPT ![t] = "idle"]
    /\ am_content' = [am_content EXCEPT ![t] = <<>>]
    /\ am_messages' = [am_messages EXCEPT ![t] = <<>>]
    /\ UNCHANGED notAppend

----------------------------------------------------------------------------
\* Ingestion: the per-file loop of the API endpoint and of the script, and the
\* index writes of PineconeIndexer

\* _UPSERT_BATCH
UPSERT_BATCH == 50

\* a vector of the index: its id (the chunk_id f"{source_file}_{n}"), the file it
\* came from, and the version of the file's content it was computed from
Vector(file, n, version) == [id |-> <<file, n>>, source_file |-> file, version |-> version]

\* the vectors of a file's content in a given version, n chunks
FileVectors(file, n, version) == { Vector(file, k, version) : k \in 1..n }

\* the vectors of the index that came from a file
FromSource(ix, file) == { v \in ix : v.source_file = file }

\* self.index.delete(filter={"source_file": {"$eq": source_file}})
IndexDelete(ix, file) == ix \ FromSource(ix, file)

\* self.index.upsert(vectors=batch): a vector replaces the one with its id
IndexUpsert(ix, batch) ==
    { v \in ix : \A w \in batch : w.id # v.id } \cup batch

\* records[i: i + _UPSERT_BATCH] of a file with n chunks, i counted from 0
UpsertBatch(file, n, i) ==
    { Vector(file, k, "new") : k \in (i + 1)..Min(i + UPSERT_BATCH, n) }

\* the manuals of the source directory, and a manual ingested earlier that is
\* not in it
IngestFiles == <<"civic.pdf", "camry.pdf">>
OtherFile == "f150.pdf"

\* the chunk counts a manual may give: none, fewer than a batch, more than a batch
ChunkCounts == {0, 2, UPSERT_BATCH + 1}

\* the index before the run: empty, or holding an earlier version of every manual
IndexesBefore ==
    { {},
      FileVectors("civic.pdf", 3, "old") \cup FileVectors("camry.pdf", 1, "old")
         \cup FileVectors(OtherFile, 2, "old") }

IngestOff ==
    /\ ix_vectors = {}
    /\ ix_mode = "off"
    /\ ix_files = <<>>
    /\ ix_pos = 0
    /\ ix_pc = "off"
    /\ ix_nchunks = 0
    /\ ix_upserted = 0
    /\ total_vectors = 0
    /\ ix_failed = {}
    /\ ix_start = {}

\* the first step of a file: the endpoint deletes first, the script parses first
FirstStep == IF ix_mode = "api" THEN "delete" ELSE "parse"

\* the run starts: the files are listed and the loop is at its first file
IngestInit ==
    /\ ix_vectors \in IndexesBefore
    /\ ix_start = ix_vectors
    /\ ix_mode \in {"api", "script"}
    /\ ix_files \in {IngestFiles, SubSeq(IngestFiles, 1, 1)}
    /\ ix_pos = 1
    /\ ix_pc = FirstStep
    /\ ix_nchunks = 0
    /\ ix_upserted = 0
    /\ total_vectors = 0
    /\ ix_failed = {}

\* the next pass of `for file_path in files`, or the end of the run
NextFile ==
    /\ ix_pos' = ix_pos + 1
    /\ ix_pc' = IF ix_pos < Len(ix_files) THEN FirstStep ELSE "finished"
    /\ ix_nchunks' = 0
    /\ ix_upserted' = 0

\* except Exception: log (and record) the failure, go on with the next file
FileFailed ==
    /\ ix_failed' = ix_failed \cup {ix_files[ix_pos]}
    /\ NextFile

\* indexer.delete_by_source(file_path.name): the delete, or a failure that is
\* logged as a warning and swallowed
DeleteBySource ==
    /\ ix_pc = "delete"
    /\ \E ok \in BOOLEAN :
          ix_vectors' = IF ok THEN IndexDelete(ix_vectors, ix_files[ix_pos]) ELSE ix_vectors
    /\ ix_pc' = IF ix_mode = "api" THEN "parse" ELSE "embed"
    /\ UNCHANGED <<ix_mode, ix_files, ix_pos, ix_nchunks, ix_upserted, total_vectors,
                   ix_failed, ix_start, notIngest>>

\* sections = parse_document(file_path); chunks = chunker.chunk(sections)
ParseAndChunk ==
    /\ ix_pc = "parse"
    /\ \/ \E n \in ChunkCounts :
             /\ ix_nchunks' = n
             /\ ix_pc' = IF ix_mode = "api" THEN "embed" ELSE "delete"
             /\ UNCHANGED <<ix_pos, ix_upserted, ix_failed>>
       \/ FileFailed
    /\ UNCHANGED <<ix_vectors, ix_mode, ix_files, total_vectors, ix_start, notIngest>>

\* embedded = embedder.embed(chunks); upsert() returns 0 for no chunks
Embed ==
    /\ ix_pc = "embed"
    /\ \/ /\ ix_nchunks > 0
          /\ ix_pc' = "upsert"
          /\ UNCHANGED <<ix_pos, ix_nchunks, ix_upserted, ix_failed>>
       \/ /\ ix_nchunks = 0
          /\ NextFile
          /\ UNCHANGED ix_failed
       \/ /\ ix_nchunks > 0
          /\ FileFailed
    /\ UNCHANGED <<ix_vectors, ix_mode, ix_files, total_vectors, ix_start, notIngest>>

\* one pass of the batch loop of upsert(); after the last batch, count is
\* added to total_vectors
UpsertStep ==
    /\ ix_pc = "upsert"
    /\ \/ /\ ix_vectors' = IndexUpsert(ix_vectors,
                                       UpsertBatch(ix_files[ix_pos], ix_nchunks, ix_upserted))
          /\ IF ix_upserted + UPSERT_BATCH < ix_nchunks
             THEN /\ ix_upserted' = ix_upserted + UPSERT_BATCH
                  /\ UNCHANGED <<ix_pos, ix_pc, ix_nchunks, total_vectors>>
             ELSE /\ total_vectors' = total_vectors + ix_nchunks
                  /\ NextFile
          /\ UNCHANGED ix_failed
       \/ /\ FileFailed
          /\ UNCHANGED <<ix_vectors, total_vectors>>
    /\ UNCHANGED <<ix_mode, ix_files, ix_start, notIngest>>

----------------------------------------------------------------------------
\* Specifications

\* the application around the retrieval pipeline, not running
AppOff == EmbedOff /\ ChatOff /\ AppendOff /\ IngestOff

\* the retrieval pipeline, not running
RetrievalOff == HybridOff /\ FusionOff /\ FilterOff /\ SparseOff /\ RerankOff

InitEmbed == EmbedInit /\ RetrievalOff /\ ChatOff /\ AppendOff /\ IngestOff

NextEmbed ==
    \/ \E texts \in TextBatches : CallApi(texts)
    \/ Attempt

\* one _call_api call; every API call and every sleep returns
SpecEmbed == InitEmbed /\ [][NextEmbed]_vars /\ WF_vars(NextEmbed)

Init == HybridInit /\ FusionOff /\ FilterOff /\ SparseOff /\ RerankOff /\ AppOff

Next == HybridNext

\* the orchestrator serving retrieve() calls
Spec == Init /\ [][Next]_vars

\* a comparison of four vehicles, as the caller types it
FourVehicleQueries == { <<"Compare", "Civic", "camry", "f-150", "model 3">> }

\* a retriever built with top_k=2 and rerank_n=2
InitFanOut ==
    /\ top_k = 2
    /\ rerank_n = 2
    /\ HybridIdle
    /\ FusionOff /\ FilterOff /\ SparseOff /\ RerankOff /\ AppOff

NextFanOut ==
    \/ \E q \in FourVehicleQueries : Retrieve(q, None)
    \/ DenseStage
    \/ SparseStage
    \/ FuseStage
    \/ RerankStage
    \/ ExtendResults
    \/ Return

\* the orchestrator serving comparisons of four vehicles
SpecFanOut == InitFanOut /\ [][NextFanOut]_vars

InitChat == ChatInit /\ RetrievalOff /\ EmbedOff /\ AppendOff /\ IngestOff

NextChat ==
    \/ \E req \in ChatRequests(conversations) : ChatBegin(req)
    \/ ResolveConversation
    \/ LoadHistory
    \/ RetrieveStep
    \/ GenerateStep
    \/ AppendUser
    \/ AppendAssistant
    \/ Respond
    \/ ChatEnd

\* the chat endpoint serving requests one after the other
SpecChat == InitChat /\ [][NextChat]_vars

InitAppend == AppendInit /\ RetrievalOff /\ EmbedOff /\ ChatOff /\ IngestOff

NextAppend ==
    \/ \E t \in AppendCallers : AppendLoad(t)
    \/ \E t \in AppendCallers : AppendCommit(t)

\* concurrent callers appending to one conversation
SpecAppend == InitAppend /\ [][NextAppend]_vars

InitIngest == IngestInit /\ RetrievalOff /\ EmbedOff /\ ChatOff /\ AppendOff

NextIngest ==
    \/ DeleteBySource
    \/ ParseAndChunk
    \/ Embed
    \/ UpsertStep

\* one ingestion run over the files of a directory
SpecIngest == InitIngest /\ [][NextIngest]_vars

InitFusion == FusionInit /\ HybridOff /\ FilterOff /\ SparseOff /\ RerankOff /\ AppOff

NextFusion == FusionCall

\* the fusion merger on every bounded argument tuple
SpecFusion == InitFusion /\ [][NextFusion]_vars

InitFilter == FilterInit /\ HybridOff /\ FusionOff /\ SparseOff /\ RerankOff /\ AppOff

NextFilter ==
    \/ MatchesFilterCall
    \/ BuildFilterCall

\* the two filter functions on every bounded metadata and filter dict
SpecFilter == InitFilter /\ [][NextFilter]_vars

InitSparse == SparseInit(OneCaller) /\ HybridOff /\ FusionOff /\ FilterOff
    /\ RerankOff /\ AppOff

NextSparse ==
    \/ \E t \in DOMAIN spc, q \in SparseQueries, f \in SparseFilters : SparseRetrieve(t, q, f)
    \/ \E t \in DOMAIN spc : EnsureIndexLoaded(t)
    \/ \E t \in DOMAIN spc : FetchCorpus(t)
    \/ \E t \in DOMAIN spc : BuildEmptyIndex(t)
    \/ \E t \in DOMAIN spc : SetCorpus(t)
    \/ \E t \in DOMAIN spc : SetBm25(t)
    \/ \E t \in DOMAIN spc : GetScores(t)
    \/ \E t \in DOMAIN spc : Collect(t)
    \/ StoreChange

\* one sparse retriever serving sequential retrieve() calls over a changing store
SpecSparse == InitSparse /\ [][NextSparse]_vars

InitSparseConcurrent == SparseInit(ConcurrentCallers) /\ HybridOff /\ FusionOff /\ FilterOff
    /\ RerankOff /\ AppOff

NextSparseConcurrent ==
    \/ \E t \in DOMAIN spc, q \in ConcurrentQueries : SparseRetrieve(t, q, NoFilters)
    \/ \E t \in DOMAIN spc : EnsureIndexLoaded(t)
    \/ \E t \in DOMAIN spc : FetchCorpus(t)
    \/ \E t \in DOMAIN spc : BuildEmptyIndex(t)
    \/ \E t \in DOMAIN spc : SetCorpus(t)
    \/ \E t \in DOMAIN spc : SetBm25(t)
    \/ \E t \in DOMAIN spc : GetScores(t)
    \/ \E t \in DOMAIN spc : Collect(t)
    \/ StoreChange

\* one sparse retriever serving callers whose retrieve() calls interleave
SpecSparseConcurrent == InitSparseConcurrent /\ [][NextSparseConcurrent]_vars

InitRerank == RerankInit /\ HybridOff /\ FusionOff /\ FilterOff /\ SparseOff /\ AppOff

NextRerank == Rerank

\* the reranker on every bounded candidate list
SpecRerank == InitRerank /\ [][NextRerank]_vars

----------------------------------------------------------------------------
\* Properties of the orchestrator (checked under Spec)

\* the stages of one _retrieve_single, in program order
StageOrder == <<"dense", "sparse", "rrf", "rerank">>

\* the number of calls of stage op in the history
CountCalls(op) == Cardinality({i \in 1..Len(calls) : calls[i].op = op})

\* C1: on the normal path the stages run in the order dense -> sparse -> fusion
\* -> rerank, each once; both sub-retrievers and the reranker get the caller's
\* query, both sub-retrievers get the caller's filters, the merger gets (dense
\* results, sparse results), the reranker gets the merger's output, and the
\* reranker's result is what retrieve returns.
C1_NormalPathStages ==
    path = "normal" =>
        /\ Len(calls) <= Len(StageOrder)
        /\ \A i \in 1..Len(calls) :
              /\ calls[i].op = StageOrder[i]
              /\ calls[i].op \in {"dense", "sparse", "rerank"} => calls[i].q = query
              /\ calls[i].op \in {"dense", "sparse"} => calls[i].f = filters
        /\ pc = "done" =>
              /\ Len(calls) = Len(StageOrder)
              /\ rrf_args = <<dense_results, sparse_results>>
              /\ merged = ReciprocalRankFusion(<<dense_results, sparse_results>>)
              /\ rerank_args = <<query, merged>>
              /\ result = reranked

\* C1 witness: a normal-path call has returned a list built from both retrievers
C1_Witness ==
    /\ pc = "done"
    /\ path = "normal"
    /\ Len(dense_results) >= 2
    /\ Len(sparse_results) >= 2
    /\ dense_results # sparse_results
    /\ Len(result) >= 2

\* C2: a stage call that raises is the last stage call of the retrieval (no
\* later stage, no second attempt), and its exception, not a result, is what
\* the caller of retrieve gets.
C2_NoRetryNoFallback ==
    /\ \A i \in 1..Len(calls) :
          calls[i].raised # None =>
              /\ i = Len(calls)
              /\ pc = "raised"
              /\ exc = calls[i].raised
              /\ result = <<>>
    /\ pc = "raised" => (Len(calls) > 0 /\ calls[Len(calls)].raised = exc /\ exc # None)
    /\ pc = "done" => exc = None

\* C2 witness: the rerank call of the second sub-retrieval of a fan-out raised
C2_Witness ==
    /\ pc = "raised"
    /\ path = "comparison"
    /\ vi = 2
    /\ calls[Len(calls)].op = "rerank"
    /\ exc = "RateLimited"

C4_AsStated == pc = "done" => Len(result) <= rerank_n

\* C5 as stated: the fan-out is taken exactly when a trigger word is present
\* and the aliases resolve to at least 2 distinct canonical entities, with one
\* sub-retrieval per distinct entity; otherwise the single-query path runs on
\* the original query.
C5_AsStated ==
    pc # "idle" =>
        /\ path = "comparison" <=>
              (IsComparison(query) /\ Cardinality(Range(DetectVehicles(query))) >= 2)
        /\ (path = "comparison" /\ pc = "done") =>
              CountCalls("dense") = Cardinality(Range(DetectVehicles(query)))
        /\ path = "normal" => single_query = query

\* C6 as stated: on the fan-out a sub-retrieval fetches and returns at most the
\* 3 candidates of the top_k it was given, and runs no fusion and no rerank
C6_AsStated ==
    path = "comparison" =>
        /\ Len(dense_results) <= single_top_k
        /\ Len(sparse_results) <= single_top_k
        /\ Len(reranked) <= single_top_k
        /\ CountCalls("rrf") = 0
        /\ CountCalls("rerank") = 0

\* the chunks of the returned list that were retrieved for vehicle v
FromVehicle(v) == {i \in 1..Len(result) : origin[i] = v}

\* C7 as stated: the fan-out returns at most 2 chunks per entity, at most 5 in
\* all, and at most 4 when exactly two entities are detected
C7_AsStated ==
    (pc = "done" /\ path = "comparison") =>
        /\ result = Take(all_results, 5)
        /\ \A v \in Range(vehicles) : Cardinality(FromVehicle(v)) <= 2
        /\ Len(result) <= 5
        /\ Cardinality(Range(vehicles)) = 2 => Len(result) <= 4

----------------------------------------------------------------------------
\* Properties of the fusion merger (checked under SpecFusion)

\* the places <<list, rank>> of the argument tuple that hold a chunk of this key
Occurrences(key) ==
    { p \in (1..Len(result_lists)) \X (1..MaxRank) :
        /\ p[2] <= Len(result_lists[p[1]])
        /\ ChunkKey(result_lists[p[1]][p[2]]) = key }

\* the identity keys that occur in the argument tuple
InputKeys ==
    { ChunkKey(result_lists[l][r]) :
        <<l, r>> \in { p \in (1..Len(result_lists)) \X (1..MaxRank) :
                          p[2] <= Len(result_lists[p[1]]) } }

\* the sum of 1/(60 + rank) over the occurrences of a key, in units of 1/ScoreDen
ReciprocalRankSum(key) ==
    LET occ == Occurrences(key)
    IN SumOver(occ, [p \in occ |-> ScoreDen \div (60 + p[2])])

\* the first occurrence of a key: first list in argument order, first rank in it
FirstOccurrence(key) ==
    CHOOSE p \in Occurrences(key) :
        \A q \in Occurrences(key) : p[1] < q[1] \/ (p[1] = q[1] /\ p[2] <= q[2])

\* C8: the fused score of every key is the sum, over its occurrences, of
\* 1/(60 + rank) with ranks counted from 1 (each term exact: ScoreDen is a
\* multiple of every 60 + rank).
C8_FusedScoreIsReciprocalRankSum ==
    fstate = "done" =>
        \A i \in 1..Len(fused) :
            /\ fused[i].score = ReciprocalRankSum(ChunkKey(fused[i]))
            /\ \A p \in Occurrences(ChunkKey(fused[i])) : ScoreDen % (60 + p[2]) = 0

\* C8 witness: a key that occurs in two lists, at two different ranks, was fused
C8_Witness ==
    /\ fstate = "done"
    /\ Len(result_lists) = 2
    /\ \E i \in 1..Len(fused) :
          \E p, q \in Occurrences(ChunkKey(fused[i])) :
              /\ p[1] = 1 /\ q[1] = 2 /\ p[2] # q[2]
              /\ Occurrences(ChunkKey(fused[i])) = {p, q}
              /\ fused[i].score = ScoreDen \div (60 + p[2]) + ScoreDen \div (60 + q[2])

C10_FirstInstanceKept ==
    fstate = "done" =>
        /\ \A i \in 1..Len(fused) :
              LET p == FirstOccurrence(ChunkKey(fused[i]))
                  first == result_lists[p[1]][p[2]]
              IN /\ fused[i].text = first.text
                 /\ fused[i].metadata = first.metadata
                 /\ fused[i].score = ReciprocalRankSum(ChunkKey(fused[i]))
        /\ \A l \in 1..Len(result_lists) :
              \A r \in 1..Len(result_lists[l]) : result_lists[l][r] \in FusionChunks

\* C10 witness: key "a" was met first as the instance "A2" and later as "A"
C10_Witness ==
    /\ fstate = "done"
    /\ \E i \in 1..Len(fused) :
          /\ fused[i].text = "A2"
          /\ fused[i].metadata.source_file = "y.pdf"
          /\ fused[i].score # 80
    /\ \E l \in 1..Len(result_lists) :
          \E r \in 1..Len(result_lists[l]) : result_lists[l][r].text = "A"

\* the sequence of identity keys of a list of chunks
KeysOf(list) == [i \in 1..Len(list) |-> ChunkKey(list[i])]

\* the argument tuple is N >= 1 copies of one list whose keys are pairwise distinct
SameListRepeated ==
    /\ Len(result_lists) >= 1
    /\ \A l \in 1..Len(result_lists) : result_lists[l] = result_lists[1]
    /\ \A i, j \in 1..Len(result_lists[1]) :
          i # j => ChunkKey(result_lists[1][i]) # ChunkKey(result_lists[1][j])

\* C11: fusing N >= 1 copies of a list with pairwise distinct keys gives the
\* members of the list in the list's order, each with N times the score it
\* gets when the list is fused alone (N = 1: the list's order is preserved).
C11_SelfFusionScalesScores ==
    (fstate = "done" /\ SameListRepeated) =>
        LET N == Len(result_lists)
            alone == ReciprocalRankFusion(<<result_lists[1]>>)
        IN /\ KeysOf(fused) = KeysOf(result_lists[1])
           /\ KeysOf(alone) = KeysOf(result_lists[1])
           /\ \A i \in 1..Len(fused) :
                 /\ fused[i].score = N * alone[i].score
                 /\ alone[i].score = ScoreDen \div (60 + i)

\* C11 witness: a list of two distinct keys was fused with itself
C11_Witness ==
    /\ fstate = "done"
    /\ SameListRepeated
    /\ Len(result_lists) = 2
    /\ Len(result_lists[1]) = 2
    /\ fused[1].score = 2 * (ScoreDen \div 61)
    /\ fused[2].score = 2 * (ScoreDen \div 62)

----------------------------------------------------------------------------
\* Properties of the filter functions (checked under SpecFilter)

\* the filter keys that carry a non-null value, among the keys of S
NonNullKeys(S) == {k \in S \cap DOMAIN ffilters : ffilters[k] # None}

\* the metadata has the key, with exactly the filter's value
MetadataAgrees(k) == k \in DOMAIN fmeta /\ fmeta[k] = ffilters[k]

\* C14 as stated: the match succeeds iff the metadata agrees on every filter
\* key that carries a non-null value, whatever the key.
C14_AsStated ==
    mstate = "done" =>
        (matches <=> \A k \in NonNullKeys(FilterKeySpace) : MetadataAgrees(k))

\* C14: the match succeeds iff the metadata agrees on every one of the keys
\* make, model, year, subsystem that the filter carries with a non-null
\* value; null-valued keys and all other keys are ignored, and a key missing
\* from the metadata fails the match.
C14_MatchesOnSupportedKeys ==
    mstate = "done" =>
        (matches <=>
            \A k \in NonNullKeys({"make", "model", "year", "subsystem"}) :
                MetadataAgrees(k))

\* C14 witness: a match that succeeded past a null-valued year and an
\* unsupported key the metadata lacks, and needed the make to agree
C14_Witness ==
    /\ mstate = "done"
    /\ matches
    /\ DOMAIN ffilters = {"make", "year", "color"}
    /\ ffilters["make"] = "Honda"
    /\ ffilters["year"] = None
    /\ ffilters["color"] = "red"
    /\ "color" \notin DOMAIN fmeta
    /\ MetadataAgrees("make")

\* C15: the filter expression has one clause {key: {$eq: value}} per key of
\* make, model, year, subsystem present with a non-null value and no other
\* clause; it is None without clauses, the bare clause with one, and
\* {$and: clauses} with several.
C15_OneClausePerSupportedKey ==
    bstate = "done" =>
        LET active == NonNullKeys({"make", "model", "year", "subsystem"})
            clauses == pinecone_filter.clauses
        IN /\ {clauses[i] : i \in 1..Len(clauses)} =
                  {[key |-> k, op |-> "$eq", value |-> ffilters[k]] : k \in active}
           /\ Len(clauses) = Cardinality(active)
           /\ pinecone_filter.kind =
                  (CASE Cardinality(active) = 0 -> "None"
                     [] Cardinality(active) = 1 -> "clause"
                     [] OTHER -> "$and")

\* C15 witness: one clause was built from a filter that also has a
\* null-valued key and an unsupported key
C15_Witness ==
    /\ bstate = "done"
    /\ DOMAIN ffilters = {"make", "model", "color"}
    /\ ffilters["model"] = None
    /\ ffilters["color"] = "red"
    /\ pinecone_filter = [kind |-> "clause",
                          clauses |-> <<[key |-> "make", op |-> "$eq", value |-> "Toyota"]>>]

----------------------------------------------------------------------------
\* Properties of the sparse retriever (checked under SpecSparse)

\* the callers whose retrieve() has returned
Returned == {t \in DOMAIN spc : spc[t] = "returned"}

\* C12 as stated: whatever the filter, a non-empty result starts with the
\* score 1.0 (ScoreDen in units of 1/ScoreDen) and no score exceeds it, and
\* the result is empty when no raw score is positive.
C12_AsStated ==
    \A t \in Returned :
        /\ sresult[t] # <<>> =>
              /\ sresult[t][1].score = ScoreDen
              /\ \A i \in 1..Len(sresult[t]) : sresult[t][i].score <= ScoreDen
        /\ (\A i \in 1..Len(scores[t]) : scores[t][i] <= 0) => sresult[t] = <<>>

\* the document passes the caller's filter (no filter and {} pass everything)
PassesFilter(meta, flt) ==
    \/ flt = NoFilters
    \/ \A k \in {"make", "model", "year", "subsystem"} \cap DOMAIN flt :
          flt[k] # None => (k \in DOMAIN meta /\ meta[k] = flt[k])

\* the corpus positions with a positive raw score whose document passes the
\* filter (the index over an empty store scores one empty document: no position)
Eligible(t) ==
    {i \in 1..Len(corpus) : scores[t][i] > 0 /\ PassesFilter(corpus[i].metadata, sfilters[t])}

\* position j comes before position i in descending raw-score order (ties in
\* corpus order)
Before(t, j, i) ==
    scores[t][j] > scores[t][i] \/ (scores[t][j] = scores[t][i] /\ j < i)

\* the place of an eligible position among the eligible ones
EligibleRank(t, i) == Cardinality({j \in Eligible(t) : Before(t, j, i)}) + 1

\* C13: the result is the first top_k of the eligible documents (raw score
\* > 0, filter passed) in descending raw-score order: filtered-out documents
\* take no place, every returned score is positive and the length is <= top_k.
C13_FirstTopKEligible ==
    \A t \in Returned :
        /\ Len(sresult[t]) = Min(s_top_k, Cardinality(Eligible(t)))
        /\ Len(sresult[t]) <= s_top_k
        /\ \A i \in Eligible(t) :
              EligibleRank(t, i) <= s_top_k =>
                  /\ sresult[t][EligibleRank(t, i)].text = corpus[i].text
                  /\ sresult[t][EligibleRank(t, i)].metadata = corpus[i].metadata
        /\ \A r \in 1..Len(sresult[t]) : sresult[t][r].score > 0

\* C13 witness: with top_k = 1 the best document failed the filter without
\* taking the place, the next one was returned and a third eligible one cut
C13_Witness ==
    \E t \in Returned :
        /\ s_top_k = 1
        /\ sfilters[t] = [make |-> "Honda"]
        /\ Len(corpus) = 4
        /\ scores[t] = <<2, 2, 1, 0>>
        /\ Eligible(t) = {2, 3}
        /\ Len(sresult[t]) = 1
        /\ sresult[t][1].text = corpus[2].text

\* the BM25 structure a build makes of a fetched corpus
IndexOf(docs) ==
    IF docs = <<>> THEN BM25Okapi(<< <<>> >>) ELSE BM25Okapi(TokenisedCorpus(docs))

\* C16 as stated: over the whole life of the retriever at most one corpus
\* fetch is issued, and none before the first call.
C16_AsStated ==
    /\ fetches <= 1
    /\ ncalls = 0 => (fetches = 0 /\ ~IndexLoaded(bm25) /\ corpus = <<>>)

\* what holds in every state of a sequential run: the index is empty before
\* the first call, a call fetches at most once, at most one build completes,
\* a built index is the fetched snapshot, and every returned result is scored
\* against that snapshot, whatever the store holds by then
IndexBuiltOnce ==
    /\ ncalls = 0 => (fetches = 0 /\ ~IndexLoaded(bm25) /\ corpus = <<>>)
    /\ fetches <= ncalls
    /\ builds = (IF IndexLoaded(bm25) THEN 1 ELSE 0)
    /\ IndexLoaded(bm25) => (corpus = built_from /\ bm25 = IndexOf(built_from))
    /\ \A t \in Returned :
          /\ IndexLoaded(bm25)
          /\ sresult[t] = SparseCollect(Bm25GetScores(IndexOf(built_from), Tokenise(squery[t])),
                                        built_from, s_top_k, sfilters[t])

\* a step taken once the index is built: no fetch, no build, index unchanged
IndexFrozen ==
    IndexLoaded(bm25) =>
        /\ fetches' = fetches
        /\ builds' = builds
        /\ bm25' = bm25
        /\ corpus' = corpus
        /\ built_from' = built_from

\* C16: over sequential retrieve calls the index is empty until the first
\* call; every call made while no build has completed fetches the corpus
\* once; exactly one build ever completes, and from then on every call
\* leaves the index alone (no fetch, cached corpus and BM25 structure
\* unchanged) and scores against the snapshot of that build even when the
\* store has changed.
C16_BuiltOnceThenFrozen == []IndexBuiltOnce /\ [][IndexFrozen]_vars

\* C16 witness: the first call's fetch failed, the second call built the
\* index, and a third call returned a chunk the store no longer holds
C16_Witness ==
    \E t \in Returned :
        /\ ncalls = 3
        /\ fetches = 2
        /\ builds = 1
        /\ store # built_from
        /\ store # <<>>
        /\ sresult[t] # <<>>
        /\ \A i \in 1..Len(store) : store[i].text # sresult[t][1].text

----------------------------------------------------------------------------
\* Properties of the sparse retriever under concurrent callers (checked under
\* SpecSparseConcurrent)

\* C17 as stated: in every interleaving of concurrent first queries the corpus
\* is tokenised into a BM25 structure at most once, and a caller that scores
\* finds the structure and the cached corpus of one and the same build.
C17_AsStated ==
    /\ builds <= 1
    /\ \A t \in DOMAIN spc :
          spc[t] \in {"score", "collect"} => (corpus = built_from /\ bm25 = IndexOf(built_from))

----------------------------------------------------------------------------
\* Properties of the reranker (checked under SpecRerank)

\* C18: without candidates no request is made and [] is returned; otherwise
\* exactly one request is made, with the candidates' texts in their order and
\* top_n = min(self.top_n, len(candidates)), and a response of at most that
\* many results gives at most self.top_n chunks.
C18_OneRequestCappedTopN ==
    /\ rstate = "ready" => service_calls = <<>>
    /\ rstate \in {"done", "raised"} =>
          IF rr_candidates = <<>>
          THEN service_calls = <<>> /\ rr_out = <<>> /\ rstate = "done"
          ELSE /\ Len(service_calls) = 1
               /\ service_calls[1].documents =
                      [i \in 1..Len(rr_candidates) |-> rr_candidates[i].text]
               /\ service_calls[1].top_n = Min(rr_top_n, Len(rr_candidates))
               /\ Len(rr_response) <= service_calls[1].top_n => Len(rr_out) <= rr_top_n

\* C18 witness: three candidates and top_n = 2 gave one request for two
\* results, and two chunks came back
C18_Witness ==
    /\ rstate = "done"
    /\ Len(rr_candidates) = 3
    /\ rr_top_n = 2
    /\ Len(service_calls) = 1
    /\ service_calls[1].top_n = 2
    /\ Len(service_calls[1].documents) = 3
    /\ Len(rr_out) = 2

\* C19: the output has one chunk per result of the service, in the service's
\* order, with the text and metadata of the candidate at the result's index
\* and the result's relevance score; no candidate's previous score is in the
\* output, and the candidates are as they were passed.
C19_ChunkPerResult ==
    rstate = "done" =>
        /\ Len(rr_out) = Len(rr_response)
        /\ \A i \in 1..Len(rr_out) :
              /\ rr_out[i].text = rr_candidates[rr_response[i].index + 1].text
              /\ rr_out[i].metadata = rr_candidates[rr_response[i].index + 1].metadata
              /\ rr_out[i].score = rr_response[i].relevance_score
              /\ \A j \in 1..Len(rr_candidates) : rr_out[i].score # rr_candidates[j].score
        /\ rr_candidates \in CandidateLists

\* C19 witness: the service ranked the last of three candidates first, and
\* the first output chunk is that candidate with the service's score
C19_Witness ==
    /\ rstate = "done"
    /\ Len(rr_candidates) = 3
    /\ Len(rr_response) = 2
    /\ rr_response[1].index = 2
    /\ rr_out[1].text = "oil filter"
    /\ rr_out[1].metadata = rr_candidates[3].metadata
    /\ rr_candidates[1].text = "oil filter"
    /\ rr_out[1].score = 95
    /\ rr_candidates[3].score = 16

----------------------------------------------------------------------------
\* Ordering of the orchestrator's result (checked under Spec, where the dense
\* index and the rerank service answer in descending score order)

\* C20 as stated: the fused list and the list retrieve() returns, on the
\* normal path and on the comparison path, are in non-increasing score order.
C20_AsStated ==
    /\ \A i \in 1..(Len(merged) - 1) : merged[i].score >= merged[i + 1].score
    /\ pc = "done" =>
          \A i \in 1..(Len(result) - 1) : result[i].score >= result[i + 1].score

----------------------------------------------------------------------------
\* The end-to-end scenario of the normal path

\* a fused score (in units of 1/ScoreDen) rounds to n/10000
RoundsTo(score, n) ==
    LET g == Gcd(score, ScoreDen)
        a == score \div g
        b == ScoreDen \div g
        d == a * 10000 - n * b
    IN 2 * (IF d < 0 THEN -d ELSE d) <= b

\* a finished normal call whose dense retriever returned [c1] and whose sparse
\* retriever returned [c1, c2]
EndToEndScenario ==
    /\ pc = "done"
    /\ path = "normal"
    /\ Len(rrf_args) = 2
    /\ KeysOf(rrf_args[1]) = <<"c1">>
    /\ KeysOf(rrf_args[2]) = <<"c1", "c2">>

\* the rerank service answered with one result: c1 (index 0), relevance 0.95
OnlyC1At95 == << [index |-> 0, relevance_score |-> 95] >>

\* C21 as stated: in the scenario the merger produces [c1, c2] with fused scores
\* about 0.0328 and about 0.0164, and with the reranker returning only c1 at 0.95
\* retrieve returns [c1] with score 0.95.
C21_AsStated ==
    EndToEndScenario =>
        /\ KeysOf(merged) = <<"c1", "c2">>
        /\ RoundsTo(merged[1].score, 328)
        /\ RoundsTo(merged[2].score, 164)
        /\ (reranked = RerankBuild(merged, OnlyC1At95)) =>
              /\ KeysOf(result) = <<"c1">>
              /\ result[1].score = 95

\* C21: in the scenario the merger produces [c1, c2] with fused scores 2/61 (about
\* 0.0328) for c1 and 1/62 (about 0.0161) for c2, c2 being second in its only list,
\* and with the reranker returning only c1 at 0.95 retrieve returns [c1] with
\* score 0.95.
C21_EndToEndNormalPath ==
    EndToEndScenario =>
        /\ KeysOf(merged) = <<"c1", "c2">>
        /\ RoundsTo(merged[1].score, 328)
        /\ merged[1].score * 61 = 2 * ScoreDen
        /\ RoundsTo(merged[2].score, 161)
        /\ merged[2].score * 62 = ScoreDen
        /\ (reranked = RerankBuild(merged, OnlyC1At95)) =>
              /\ KeysOf(result) = <<"c1">>
              /\ Len(result) = 1
              /\ result[1].score = 95
              /\ result[1].text = rrf_args[1][1].text

C21_Witness ==
    /\ EndToEndScenario
    /\ reranked = RerankBuild(merged, OnlyC1At95)
    /\ KeysOf(result) = <<"c1">>

----------------------------------------------------------------------------
\* Distinct chunks in the returned list

\* no two entries of the list have the same chunk_id
DistinctChunkIds(list) ==
    \A i, j \in 1..Len(list) : i # j => ChunkKey(list[i]) # ChunkKey(list[j])

\* C25 as stated: the list retrieve returns never holds two chunks with the same
\* chunk_id, on the normal path and on the comparison path.
C25_AsStated == pc = "done" => DistinctChunkIds(result)

----------------------------------------------------------------------------
\* The share of each vehicle in a comparison

\* the vehicles whose chunks are among the first n gathered
Contributors(n) == { origin[j] : j \in 1..Min(n, Len(origin)) }

\* C29 as stated: on the comparison path every detected vehicle whose
\* sub-retrieval returned at least one chunk has at least one chunk in the
\* list retrieve returns, for any number of detected vehicles.
C29_AsStated ==
    (pc = "done" /\ path = "comparison") =>
        \A i \in 1..Len(vehicles) :
            vehicles[i] \in Contributors(Len(all_results)) =>
                vehicles[i] \in Contributors(Len(result))

----------------------------------------------------------------------------
\* The two retrievers apply the same filter

\* C26: for every filter dict and every metadata, _matches_filter is true exactly
\* when the metadata satisfies the expression _build_filter returns (None: no
\* restriction); the same holds of the two retrievers with their `if filters`
\* guards, and an empty or absent filter dict restricts neither of them.
C26_SameFilterBothRetrievers ==
    (mstate = "done" /\ bstate = "done") =>
        /\ matches <=> Satisfies(fmeta, pinecone_filter)
        /\ PostFilterKeeps(fmeta, ffilters) <=> Satisfies(fmeta, DenseFilterArg(ffilters))
        /\ ~FiltersTruthy(ffilters) =>
              /\ PostFilterKeeps(fmeta, ffilters)
              /\ Satisfies(fmeta, DenseFilterArg(ffilters))
        /\ PostFilterKeeps(fmeta, NoFilters)
        /\ Satisfies(fmeta, DenseFilterArg(NoFilters))

\* both functions ran on a two-clause filter that the metadata fails, on a
\* supported key, while it names an unsupported key as well
C26_Witness ==
    /\ mstate = "done"
    /\ bstate = "done"
    /\ pinecone_filter.kind = "$and"
    /\ ~matches
    /\ ~Satisfies(fmeta, pinecone_filter)
    /\ "color" \in DOMAIN ffilters

----------------------------------------------------------------------------
\* The retry loop of the embedder

\* the failures the claim lets the loop retry
RateLimitOrServerError(o) ==
    \/ o.kind = "RateLimitError"
    \/ o.kind = "APIStatusError" /\ o.status_code >= 500

\* the call is over: it returned or raised
CallApiOver == e_pc \in {"returned", "raised"}

AttemptsBounded ==
    /\ Len(api_calls) <= 5
    /\ \A i \in 1..(Len(api_calls) - 1) : RateLimitOrServerError(api_calls[i])
    /\ Len(api_calls) = 0 => ~CallApiOver
    /\ Len(api_calls) > 0 =>
          LET last == api_calls[Len(api_calls)]
          IN /\ last.kind = "ok" =>
                   /\ e_pc = "returned"
                   /\ e_out = [i \in 1..Len(e_texts) |-> EmbeddingOf(e_texts[i])]
             /\ (last.kind = "APIStatusError" /\ last.status_code < 500) =>
                   /\ e_pc = "raised"
                   /\ e_exc = "APIStatusError"
             /\ (RateLimitOrServerError(last) /\ Len(api_calls) = 5) =>
                   /\ e_pc = "raised"
                   /\ e_exc = "RuntimeError"
             /\ (RateLimitOrServerError(last) /\ Len(api_calls) < 5) => e_pc = "calling"
             /\ e_pc = "returned" => last.kind = "ok"
             /\ e_exc = "RuntimeError" =>
                   (Len(api_calls) = 5 /\ RateLimitOrServerError(last))

\* C24: _call_api always terminates, after at most 5 API attempts: it returns on
\* the first successful attempt, goes on only after a rate-limit error or an API
\* status error with code >= 500, raises any other API status error at once, and
\* raises RuntimeError after the 5th retryable failure in a row.
C24_TerminatesWithinFiveAttempts == []AttemptsBounded /\ <>CallApiOver

\* five retryable failures, the last a 500, ended in RuntimeError
C24_Witness ==
    /\ e_exc = "RuntimeError"
    /\ Len(api_calls) = 5
    /\ api_calls[5].status_code = 500
    /\ api_calls[1].kind = "RateLimitError"

----------------------------------------------------------------------------
\* The chat request flow

\* the operations the current request has called, in order
CalledOps == [i \in 1..Len(c_calls) |-> c_calls[i].op]

Called(op) == \E i \in 1..Len(c_calls) : c_calls[i].op = op

\* the retriever raised in the current request
RetrieveRaised ==
    \E i \in 1..Len(c_calls) : c_calls[i].op = "retrieve" /\ c_calls[i].raised # None

\* the messages of a conversation when the request arrived (none if it is new)
MessagesBefore(id) == IF id \in DOMAIN store_before THEN store_before[id].messages ELSE <<>>

\* C22: once HybridRetriever.retrieve has raised in a chat request, the request
\* has failed with that exception, the generator is not called, no user or
\* assistant message is appended to any conversation, and nothing is written to
\* the cache.
C22_NoGenerationAfterRetrievalError ==
    RetrieveRaised =>
        /\ c_pc = "failed"
        /\ c_exc \in Errors
        /\ ~Called("generate")
        /\ ~Called("append_user")
        /\ ~Called("append_assistant")
        /\ ~Called("cache_set")
        /\ \A id \in DOMAIN conversations : conversations[id].messages = MessagesBefore(id)
        /\ cache = cache_before

\* the retriever raised in a request on a conversation that has messages
C22_Witness ==
    /\ RetrieveRaised
    /\ c_pc = "failed"
    /\ c_conv_id \in DOMAIN conversations
    /\ Len(conversations[c_conv_id].messages) = 2

\* the request named a conversation that had messages when it arrived
HadHistory ==
    /\ c_request.conversation_id \in DOMAIN store_before
    /\ store_before[c_request.conversation_id].messages # <<>>

\* the calls of the current request after its cache lookup
CallsAfterLookup ==
    LET i == CHOOSE j \in 1..Len(c_calls) : c_calls[j].op = "cache_get"
    IN SubSeq(CalledOps, i + 1, Len(c_calls))

IsPrefix(s, t) == Len(s) <= Len(t) /\ s = SubSeq(t, 1, Len(s))

\* C23: the response cache is read and written only for requests whose
\* conversation has no prior history: a request on a conversation with history
\* never looks the cache up, never returns cached=True and never writes an
\* entry. After a cache hit the retriever and the generator are not called, the
\* only calls are the append of the user message and then of the assistant
\* message (the cached answer), and the response returned carries the
\* requesting conversation's id, cached=True and the cached answer.
C23_CacheOnlyWithoutHistory ==
    /\ HadHistory =>
          /\ ~Called("cache_get")
          /\ ~Called("cache_set")
          /\ cache = cache_before
          /\ c_cached_result = NoResult
          /\ c_pc = "done" => ~c_response.cached
    /\ (Called("cache_get") \/ Called("cache_set")) => c_history = <<>>
    /\ c_cached_result # NoResult =>
          /\ c_cached_result = cache_before[c_cache_key]
          /\ ~Called("retrieve")
          /\ ~Called("generate")
          /\ IsPrefix(CallsAfterLookup, <<"append_user", "append_assistant">>)
          /\ cache = cache_before
          /\ c_pc = "done" =>
                /\ c_response.cached
                /\ c_response.conversation_id = c_conv_id
                /\ c_request.conversation_id # None =>
                      c_response.conversation_id = c_request.conversation_id
                /\ c_response.answer = c_cached_result.answer
                /\ conversations[c_conv_id].messages =
                      MessagesBefore(c_conv_id)
                         \o << StoredMessage("user", c_request.message),
                               StoredMessage("assistant", c_cached_result.answer) >>
    /\ (c_pc = "done" /\ c_response.cached) => c_cached_result # NoResult

\* a cache hit answered for another conversation than the one that wrote the entry
C23_Witness ==
    /\ c_pc = "done"
    /\ c_response.cached
    /\ c_cached_result.conversation_id # c_conv_id
    /\ c_response.conversation_id = c_conv_id

\* C28 as stated: a chat request that failed leaves the conversation store as it
\* was when the request arrived: no conversation created, no filters changed,
\* no message appended.
C28_AsStated == c_pc = "failed" => conversations = store_before

----------------------------------------------------------------------------
\* Concurrent appends to one conversation

\* how many times a content is in the stored list
StoredCount(c) == Cardinality({ i \in 1..Len(am_stored) : am_stored[i] = c })

\* the stored messages a caller appended, in stored order
StoredOf(t) == SelectSeq(am_stored, LAMBDA c : c[1] = t)

\* C27 as stated: once the concurrent append_message calls have all returned,
\* the stored list holds every appended message exactly once, and the messages
\* of one caller are in their call order.
C27_AsStated ==
    (\A t \in AppendCallers : am_pc[t] = "idle") =>
        /\ \A t \in AppendCallers :
              \A i \in 1..Len(am_returned[t]) : StoredCount(am_returned[t][i]) = 1
        /\ \A t \in AppendCallers : StoredOf(t) = am_returned[t]

----------------------------------------------------------------------------
\* Re-ingesting a file

\* C30 as stated: when the ingestion of a file has failed (endpoint or script),
\* the vectors indexed for that file before the run are still in the index, and
\* the vectors of every file that was not being ingested are untouched.
C30_AsStated ==
    /\ \A f \in ix_failed : FromSource(ix_start, f) \subseteq ix_vectors
    /\ FromSource(ix_vectors, OtherFile) = FromSource(ix_start, OtherFile)

====
